---- MODULE Spec2Model ----
(***************************************************************************)
(* Air-Pollution-Forecasting backend: the AQI computations of              *)
(* forecaster.py and real_data_fetcher.py, the source reconciler           *)
(* (combine_data_sources / fetch_combined_data) and the request handlers   *)
(* of app.py.                                                              *)
(*                                                                         *)
(* Concentrations are fixed-point numbers in tenths of a ug/m3 (35.4 is    *)
(* 354).  An AQI value is an exact rational [n |-> numerator, d |->        *)
(* denominator], d > 0, so that the interpolation formulas are computed as *)
(* the code writes them and not rounded by the model.                      *)
(***************************************************************************)
EXTENDS Integers, Sequences, FiniteSets, TLC

VARIABLES
    \* SpecAqi: the two AQI functions applied to one concentration
    pollutant,      \* the pollutant name of the reading under test
    level,          \* its concentration, in tenths
    index_out,      \* <<result of get_air_quality_index>>, <<>> before the call
    calc_out,       \* <<result of calculate_aqi_from_pm25>>, <<>> before the call
    \* SpecReading: get_air_quality_index applied to one reading
    reading,        \* pollutant_levels in key order: a sequence of <<pollutant, level>>
    reading_out,    \* <<result of get_air_quality_index>>, <<>> before the call
    \* SpecCategory: the AQI-to-category chains applied to one AQI value
    site,           \* the function whose chain is applied
    aqi_in,         \* the AQI value, in tenths of an AQI point
    cat_out,        \* the category returned, "" before the call
    \* SpecCombine: combine_data_sources applied to one data_sources mapping
    data_sources,   \* the mapping in key order: a sequence of <<source_name, payload>>
    combined_out,   \* <<the record returned>>, <<>> before the call
    \* Spec: the service handling one request at a time
    pc,             \* where the handler of the current request stands
    endpoint,       \* the route of the current request
    body,           \* request.get_json(): <<the JSON object>>, <<>> for None
    results,        \* fetch_combined_data: the results dict, in key order
    calls,          \* the fetch functions entered by this fetch_combined_data call
    sent,           \* the providers a requests.get was issued to in this call
    failed,         \* <<provider, exception>> of each fetch function that returned None
    combine_calls,  \* how often this call invoked combine_data_sources
    real_data,      \* what fetch_combined_data returned: <<record>> or <<>> (None)
    env,            \* the clock hour and random draws of generate_current_conditions
    response,       \* <<the response>>, <<>> while the request is being handled
    models_loaded,  \* app.py's global flag
    artifacts,      \* pollution_models.pkl and pollution_scalers.pkl on disk
    init_events,    \* what the last init_models call went through
    trainings       \* the train_models calls completed since the service started

aqiVars == <<pollutant, level, index_out, calc_out>>
readVars == <<reading, reading_out>>
catVars == <<site, aqi_in, cat_out>>
combVars == <<data_sources, combined_out>>
fetchVars == <<results, calls, sent, failed, combine_calls, real_data>>
initVars == <<models_loaded, artifacts, init_events, trainings>>
svcVars == <<pc, endpoint, body, fetchVars, env, response, initVars>>
vars == <<aqiVars, readVars, catVars, combVars, svcVars>>

\* Python's None where the other values are strings
None == "None"
\* An optional number or record is a sequence: <<>> is None or "no value yet",
\* <<v>> is the value v
Absent == <<>>
Some(v) == <<v>>

(***************************************************************************)
(* Bounds of the model.                                                    *)
(***************************************************************************)
\* largest concentration enumerated, in tenths (the PM10 table ends at 430.0)
MaxLevel == 4310
\* largest AQI value enumerated for the category chains, in tenths (305.0)
MaxAqiTenths == 3050

(***************************************************************************)
(* Exact rational arithmetic.                                              *)
(***************************************************************************)
Rat(n, d) == [n |-> n, d |-> d]
RInt(k) == [n |-> k, d |-> 1]
RLe(a, b) == a.n * b.d <= b.n * a.d
RLt(a, b) == a.n * b.d < b.n * a.d
REq(a, b) == a.n * b.d = b.n * a.d

\* Python's round(x) of a number to an integer: nearest, ties to even
Round(a) ==
    LET q == (2 * a.n + a.d) \div (2 * a.d)
        tie == (2 * a.n + a.d) % (2 * a.d) = 0
    IN IF tie /\ q % 2 = 1 THEN q - 1 ELSE q

(***************************************************************************)
(* real_data_fetcher.py: calculate_aqi_from_pm25 (US EPA breakpoints).     *)
(* pm25 in tenths; lo + (pm25 - bp_lo) * span / (bp_hi - bp_lo).           *)
(***************************************************************************)
\* mutant: the second bracket's width written with 35.5 for 35.4
calculate_aqi_from_pm25_typo(pm25) ==
    IF pm25 <= 120 THEN Rat(pm25 * 50, 120)
    ELSE IF pm25 <= 354 THEN Rat(50 * (355 - 120) + (pm25 - 120) * 50, 355 - 120)
    ELSE IF pm25 <= 554 THEN Rat(100 * (554 - 354) + (pm25 - 354) * 50, 554 - 354)
    ELSE IF pm25 <= 1504 THEN Rat(150 * (1504 - 554) + (pm25 - 554) * 50, 1504 - 554)
    ELSE IF pm25 <= 2504 THEN Rat(200 * (2504 - 1504) + (pm25 - 1504) * 100, 2504 - 1504)
    ELSE Rat(300 * (3504 - 2504) + (pm25 - 2504) * 100, 3504 - 2504)

calculate_aqi_from_pm25(pm25) ==
    IF pm25 <= 120 THEN Rat(pm25 * 50, 120)
    ELSE IF pm25 <= 354 THEN Rat(50 * (354 - 120) + (pm25 - 120) * 50, 354 - 120)
    ELSE IF pm25 <= 554 THEN Rat(100 * (554 - 354) + (pm25 - 354) * 50, 554 - 354)
    ELSE IF pm25 <= 1504 THEN Rat(150 * (1504 - 554) + (pm25 - 554) * 50, 1504 - 554)
    ELSE IF pm25 <= 2504 THEN Rat(200 * (2504 - 1504) + (pm25 - 1504) * 100, 2504 - 1504)
    ELSE Rat(300 * (3504 - 2504) + (pm25 - 2504) * 100, 3504 - 2504)

(***************************************************************************)
(* forecaster.py: get_air_quality_index (Indian breakpoints).              *)
(* Each bracket is <<bp_lo, bp_hi, aqi_lo, aqi_hi>>, bp in tenths.         *)
(***************************************************************************)
\* mutant: each AQI bracket starts where the one before ends (50, 100, 200, 300)
aqi_breakpoints_contiguous ==
    ("PM2.5" :> << <<0, 300, 0, 50>>, <<300, 600, 50, 100>>, <<600, 900, 100, 200>>,
                   <<900, 1200, 200, 300>>, <<1200, 2500, 300, 400>> >>)
    @@ ("PM10" :> << <<0, 500, 0, 50>>, <<500, 1000, 50, 100>>, <<1000, 2500, 100, 200>>,
                     <<2500, 3500, 200, 300>>, <<3500, 4300, 300, 400>> >>)
    @@ ("NO2" :> << <<0, 400, 0, 50>>, <<400, 800, 50, 100>>, <<800, 1800, 100, 200>>,
                    <<1800, 2800, 200, 300>>, <<2800, 4000, 300, 400>> >>)

\* the aqi_breakpoints table of get_air_quality_index
aqi_breakpoints ==
    ("PM2.5" :> << <<0, 300, 0, 50>>, <<300, 600, 51, 100>>, <<600, 900, 101, 200>>,
                   <<900, 1200, 201, 300>>, <<1200, 2500, 301, 400>> >>)
    @@ ("PM10" :> << <<0, 500, 0, 50>>, <<500, 1000, 51, 100>>, <<1000, 2500, 101, 200>>,
                     <<2500, 3500, 201, 300>>, <<3500, 4300, 301, 400>> >>)
    @@ ("NO2" :> << <<0, 400, 0, 50>>, <<400, 800, 51, 100>>, <<800, 1800, 101, 200>>,
                    <<1800, 2800, 201, 300>>, <<2800, 4000, 301, 400>> >>)

\* mutant: a level above the last breakpoint is put in the last bracket
RECURSIVE FirstBracket_clamped(_, _, _)
FirstBracket_clamped(brackets, lvl, k) ==
    IF k > Len(brackets)
    THEN (IF lvl > brackets[Len(brackets)][2] THEN Len(brackets) ELSE 0)
    ELSE IF brackets[k][1] <= lvl /\ lvl <= brackets[k][2] THEN k
    ELSE FirstBracket_clamped(brackets, lvl, k + 1)

\* mutant: no break, the last bracket containing the level is used
RECURSIVE FirstBracket_no_break(_, _, _)
FirstBracket_no_break(brackets, lvl, k) ==
    IF k > Len(brackets) THEN 0
    ELSE LET later == FirstBracket_no_break(brackets, lvl, k + 1)
         IN IF later # 0 THEN later
            ELSE IF brackets[k][1] <= lvl /\ lvl <= brackets[k][2] THEN k
            ELSE 0

\* index of the first bracket with bp_lo <= level <= bp_hi, 0 when none (the
\* inner for loop with its break)
RECURSIVE FirstBracket(_, _, _)
FirstBracket(brackets, lvl, k) ==
    IF k > Len(brackets) THEN 0
    ELSE IF brackets[k][1] <= lvl /\ lvl <= brackets[k][2] THEN k
    ELSE FirstBracket(brackets, lvl, k + 1)

\* mutant: the slope inverted, (bp_hi - bp_lo) / (aqi_hi - aqi_lo)
Interpolate_inverted(b, lvl) ==
    Rat((b[2] - b[1]) * (lvl - b[1]) + b[3] * 10 * (b[4] - b[3]), 10 * (b[4] - b[3]))

\* mutant: the offset measured from the upper breakpoint, (bp_hi - level)
Interpolate_from_hi(b, lvl) ==
    Rat((b[4] - b[3]) * (b[2] - lvl) + b[3] * (b[2] - b[1]), b[2] - b[1])

\* aqi = ((aqi_hi - aqi_lo) / (bp_hi - bp_lo)) * (level - bp_lo) + aqi_lo
Interpolate(b, lvl) ==
    Rat((b[4] - b[3]) * (lvl - b[1]) + b[3] * (b[2] - b[1]), b[2] - b[1])

\* the sub-index of one item of the reading as <<aqi>>, <<>> when the pollutant
\* is not in the table or the level is in no bracket
SubIndex(p, lvl) ==
    IF p \notin DOMAIN aqi_breakpoints THEN Absent
    ELSE LET k == FirstBracket(aqi_breakpoints[p], lvl, 1)
         IN IF k = 0 THEN Absent ELSE Some(Interpolate(aqi_breakpoints[p][k], lvl))

\* mutant: "if aqi >= max_aqi", the last of equal sub-indices wins
RECURSIVE MaxOverItems_last_wins(_, _, _, _)
MaxOverItems_last_wins(items, i, max_aqi, dominant_pollutant) ==
    IF i > Len(items) THEN [max_aqi |-> max_aqi, dominant_pollutant |-> dominant_pollutant]
    ELSE LET aqi == SubIndex(items[i][1], items[i][2])
         IN IF aqi # Absent /\ RLe(max_aqi, aqi[1])
            THEN MaxOverItems_last_wins(items, i + 1, aqi[1], items[i][1])
            ELSE MaxOverItems_last_wins(items, i + 1, max_aqi, dominant_pollutant)

\* the loop over pollutant_levels.items(): items is the mapping in its key
\* order, a sequence of <<pollutant, level>>
RECURSIVE MaxOverItems(_, _, _, _)
MaxOverItems(items, i, max_aqi, dominant_pollutant) ==
    IF i > Len(items) THEN [max_aqi |-> max_aqi, dominant_pollutant |-> dominant_pollutant]
    ELSE LET aqi == SubIndex(items[i][1], items[i][2])
         IN IF aqi # Absent /\ RLt(max_aqi, aqi[1])
            THEN MaxOverItems(items, i + 1, aqi[1], items[i][1])
            ELSE MaxOverItems(items, i + 1, max_aqi, dominant_pollutant)

\* forecaster.py: the category chain of get_air_quality_index
CategoryIndex(max_aqi) ==
    IF RLe(max_aqi, RInt(50)) THEN [category |-> "Good", color |-> "green"]
    ELSE IF RLe(max_aqi, RInt(100)) THEN [category |-> "Satisfactory", color |-> "yellow"]
    ELSE IF RLe(max_aqi, RInt(200)) THEN [category |-> "Moderate", color |-> "orange"]
    ELSE IF RLe(max_aqi, RInt(300)) THEN [category |-> "Poor", color |-> "red"]
    ELSE [category |-> "Very Poor", color |-> "maroon"]

get_air_quality_index(pollutant_levels) ==
    LET m == MaxOverItems(pollutant_levels, 1, RInt(0), None)
        c == CategoryIndex(m.max_aqi)
    IN [aqi |-> Round(m.max_aqi), category |-> c.category, color |-> c.color,
        dominant_pollutant |-> m.dominant_pollutant]

(***************************************************************************)
(* SpecAqi: the two AQI functions applied to one concentration.            *)
(***************************************************************************)
TablePollutants == {"PM2.5", "PM10", "NO2"}
Levels == 0..MaxLevel

\* the variables of the other specifications, at rest
IdleAqi == pollutant = "" /\ level = 0 /\ index_out = Absent /\ calc_out = Absent
IdleReading == reading = <<>> /\ reading_out = Absent
IdleCategory == site = "" /\ aqi_in = 0 /\ cat_out = ""
IdleCombine == data_sources = <<>> /\ combined_out = Absent
\* no init_models call yet
NoInitEvents == [load |-> "", train |-> ""]

IdleHandlers ==
    /\ pc = "idle" /\ endpoint = "" /\ body = Absent
    /\ results = <<>> /\ calls = <<>> /\ sent = <<>> /\ failed = {}
    /\ combine_calls = 0 /\ real_data = Absent
    /\ env = Absent /\ response = Absent
    /\ models_loaded = FALSE /\ init_events = NoInitEvents /\ trainings = 0
IdleService == IdleHandlers /\ artifacts = "missing"

InitAqi ==
    /\ pollutant \in TablePollutants
    /\ level \in Levels
    /\ index_out = Absent
    /\ calc_out = Absent
    /\ IdleCategory
    /\ IdleCombine
    /\ IdleService
    /\ IdleReading

\* get_air_quality_index({pollutant: level})
ApplyIndex ==
    /\ index_out = Absent
    /\ index_out' = Some(get_air_quality_index(<< <<pollutant, level>> >>))
    /\ UNCHANGED <<pollutant, level, calc_out, catVars, combVars, svcVars, readVars>>

\* calculate_aqi_from_pm25(level), the level read as a PM2.5 concentration
ApplyCalc ==
    /\ calc_out = Absent
    /\ pollutant = "PM2.5"
    /\ calc_out' = Some(calculate_aqi_from_pm25(level))
    /\ UNCHANGED <<pollutant, level, index_out, catVars, combVars, svcVars, readVars>>

NextAqi == ApplyIndex \/ ApplyCalc

SpecAqi == InitAqi /\ [][NextAqi]_vars

\* level lies between the first bp_lo and the last bp_hi of the pollutant's table
InTableRange(p, lvl) ==
    /\ aqi_breakpoints[p][1][1] <= lvl
    /\ lvl <= aqi_breakpoints[p][Len(aqi_breakpoints[p])][2]

\* the two functions tabulated over the enumerated concentrations
IndexAqiTable ==
    [p \in TablePollutants |->
        [c \in Levels |-> get_air_quality_index(<< <<p, c>> >>).aqi]]
CalcAqiTable == [c \in Levels |-> calculate_aqi_from_pm25(c)]

(***************************************************************************)
(* C1: calculate_aqi_from_pm25 is exact at the bracket boundaries: 0 -> 0, *)
(* 12.0 -> 50, 35.4 -> 100, 55.4 -> 150, 150.4 -> 200, 250.4 -> 300, and   *)
(* adjacent brackets meet without a jump: one tenth above a boundary the   *)
(* value has risen by less than 1.                                         *)
(***************************************************************************)
CalcBoundaries ==
    (120 :> 50) @@ (354 :> 100) @@ (554 :> 150) @@ (1504 :> 200) @@ (2504 :> 300)

C1_BoundaryExact ==
    calc_out # Absent =>
        /\ level = 0 => REq(calc_out[1], RInt(0))
        /\ level \in DOMAIN CalcBoundaries =>
                REq(calc_out[1], RInt(CalcBoundaries[level]))
        /\ (level - 1) \in DOMAIN CalcBoundaries =>
                /\ RLt(RInt(CalcBoundaries[level - 1]), calc_out[1])
                /\ RLt(calc_out[1], RInt(CalcBoundaries[level - 1] + 1))

C1_Witness ==
    /\ calc_out # Absent
    /\ level = 354
    /\ REq(calc_out[1], RInt(100))

C3_Monotone ==
    /\ (index_out # Absent /\ InTableRange(pollutant, level)) =>
            \A c1 \in 0..level :
                InTableRange(pollutant, c1) =>
                    IndexAqiTable[pollutant][c1] <= index_out[1].aqi
    /\ calc_out # Absent =>
            \A c1 \in 0..level : RLe(CalcAqiTable[c1], calc_out[1])

\* c2 in the third PM2.5 bracket of both tables, so that c1 ranges over two
\* lower brackets and their boundaries
C3_Witness ==
    /\ pollutant = "PM2.5"
    /\ level = 601
    /\ index_out # Absent
    /\ calc_out # Absent
    /\ index_out[1].aqi = 101
    /\ RLt(RInt(150), calc_out[1])

(***************************************************************************)
(* The AQI-to-category chains.  Each is the if/elif chain of its function, *)
(* applied to the unrounded AQI value the function compares.               *)
(***************************************************************************)
\* real_data_fetcher.py: combine_data_sources
CategoryCombine(aqi) ==
    IF RLe(aqi, RInt(50)) THEN [category |-> "Good", color |-> "#00e400"]
    ELSE IF RLe(aqi, RInt(100)) THEN [category |-> "Satisfactory", color |-> "#ffff00"]
    ELSE IF RLe(aqi, RInt(200)) THEN [category |-> "Moderate", color |-> "#ff7e00"]
    ELSE IF RLe(aqi, RInt(300)) THEN [category |-> "Poor", color |-> "#ff0000"]
    ELSE [category |-> "Very Poor", color |-> "#8f3f97"]

\* app.py: generate_current_conditions
CategoryCurrent(aqi) ==
    IF RLe(aqi, RInt(50)) THEN [category |-> "Good", color |-> "#00e400"]
    ELSE IF RLe(aqi, RInt(100)) THEN [category |-> "Satisfactory", color |-> "#ffff00"]
    ELSE IF RLe(aqi, RInt(200)) THEN [category |-> "Moderate", color |-> "#ff7e00"]
    ELSE IF RLe(aqi, RInt(300)) THEN [category |-> "Poor", color |-> "#ff0000"]
    ELSE [category |-> "Very Poor", color |-> "#8f3f97"]

\* app.py: generate_mock_forecast
CategoryForecast(aqi) ==
    IF RLe(aqi, RInt(50)) THEN "Good"
    ELSE IF RLe(aqi, RInt(100)) THEN "Satisfactory"
    ELSE IF RLe(aqi, RInt(200)) THEN "Moderate"
    ELSE IF RLe(aqi, RInt(300)) THEN "Poor"
    ELSE "Very Poor"

\* mutant: the first threshold compared with < for <=
CategoryHistorical_strict(aqi) ==
    IF RLt(aqi, RInt(50)) THEN "Good"
    ELSE IF RLe(aqi, RInt(100)) THEN "Satisfactory"
    ELSE IF RLe(aqi, RInt(200)) THEN "Moderate"
    ELSE IF RLe(aqi, RInt(300)) THEN "Poor"
    ELSE "Very Poor"

\* app.py: generate_historical_data
CategoryHistorical(aqi) ==
    IF RLe(aqi, RInt(50)) THEN "Good"
    ELSE IF RLe(aqi, RInt(100)) THEN "Satisfactory"
    ELSE IF RLe(aqi, RInt(200)) THEN "Moderate"
    ELSE IF RLe(aqi, RInt(300)) THEN "Poor"
    ELSE "Very Poor"

(***************************************************************************)
(* SpecCategory: each chain applied to one AQI value.                      *)
(***************************************************************************)
CategorySites ==
    {"get_air_quality_index", "combine_data_sources", "generate_current_conditions",
     "generate_mock_forecast", "generate_historical_data"}

InitCategory ==
    /\ site \in CategorySites
    /\ aqi_in \in 0..MaxAqiTenths
    /\ cat_out = ""
    /\ IdleAqi
    /\ IdleCombine
    /\ IdleService
    /\ IdleReading

MapIndex ==
    /\ site = "get_air_quality_index" /\ cat_out = ""
    /\ cat_out' = CategoryIndex(Rat(aqi_in, 10)).category
    /\ UNCHANGED <<site, aqi_in, aqiVars, combVars, svcVars, readVars>>

MapCombine ==
    /\ site = "combine_data_sources" /\ cat_out = ""
    /\ cat_out' = CategoryCombine(Rat(aqi_in, 10)).category
    /\ UNCHANGED <<site, aqi_in, aqiVars, combVars, svcVars, readVars>>

MapCurrent ==
    /\ site = "generate_current_conditions" /\ cat_out = ""
    /\ cat_out' = CategoryCurrent(Rat(aqi_in, 10)).category
    /\ UNCHANGED <<site, aqi_in, aqiVars, combVars, svcVars, readVars>>

MapForecast ==
    /\ site = "generate_mock_forecast" /\ cat_out = ""
    /\ cat_out' = CategoryForecast(Rat(aqi_in, 10))
    /\ UNCHANGED <<site, aqi_in, aqiVars, combVars, svcVars, readVars>>

MapHistorical ==
    /\ site = "generate_historical_data" /\ cat_out = ""
    /\ cat_out' = CategoryHistorical(Rat(aqi_in, 10))
    /\ UNCHANGED <<site, aqi_in, aqiVars, combVars, svcVars, readVars>>

NextCategory == MapIndex \/ MapCombine \/ MapCurrent \/ MapForecast \/ MapHistorical

SpecCategory == InitCategory /\ [][NextCategory]_vars

(***************************************************************************)
(* C4: every AQI-to-category mapping of the service is boundary-exact with *)
(* the same thresholds: AQI <= 50 Good, 50 < AQI <= 100 Satisfactory,      *)
(* 100 < AQI <= 200 Moderate, 200 < AQI <= 300 Poor, AQI > 300 Very Poor   *)
(* (aqi_in is in tenths: 50 is 500, 51 is 510).                            *)
(***************************************************************************)
C4_CategoryThresholds ==
    cat_out # "" =>
        /\ aqi_in <= 500 => cat_out = "Good"
        /\ (500 < aqi_in /\ aqi_in <= 1000) => cat_out = "Satisfactory"
        /\ (1000 < aqi_in /\ aqi_in <= 2000) => cat_out = "Moderate"
        /\ (2000 < aqi_in /\ aqi_in <= 3000) => cat_out = "Poor"
        /\ 3000 < aqi_in => cat_out = "Very Poor"

C4_Witness ==
    /\ site = "generate_historical_data"
    /\ aqi_in = 500
    /\ cat_out = "Good"

(***************************************************************************)
(* real_data_fetcher.py: combine_data_sources.                             *)
(*                                                                         *)
(* A dict is a function from its keys to their values.  A number that may  *)
(* be None is <<v>> or <<>>; concentrations are in tenths, AQI values are  *)
(* rationals.  The 'timestamp' key (datetime.now()) is left out.  A value  *)
(* that arrived as a JSON string instead of a number is <<s, "str">>.      *)
(***************************************************************************)
\* a JSON string where a number is expected
JsonText == <<"n/a", "str">>

\* isinstance(v, (int, float)) of a value that is not None
IsNumber(v) == Len(v) = 1
\* d.get(k): the value of key k, None when the key is missing
Get(d, k) == IF k \in DOMAIN d THEN d[k] ELSE Absent

\* d.update(u): the keys of u set, the other keys of d kept
Update(d, u) == u @@ d

\* Python's truth value of an optional value: None and 0 are false, a
\* non-empty string is true
Truthy(v) == v # Absent /\ (~IsNumber(v) \/ v[1] # 0)

\* mutant: the OpenWeather branch only fills the keys still missing
\* (setdefault for update), as the WAQI branch does
apply_source_fill(combined, source_name, source_data) ==
    IF source_name = "openweather"
    THEN combined @@
                (("PM2.5" :> Get(source_data, "pm2_5"))
                 @@ ("PM10" :> Get(source_data, "pm10"))
                 @@ ("NO2" :> Get(source_data, "no2"))
                 @@ ("SO2" :> Get(source_data, "so2"))
                 @@ ("CO" :> Get(source_data, "co"))
                 @@ ("O3" :> Get(source_data, "o3")))
    ELSE IF source_name = "airvisual"
    THEN Update(combined,
                ("AQI" :> Get(source_data, "aqi_us"))
                @@ ("temperature" :> Get(source_data, "temperature"))
                @@ ("humidity" :> Get(source_data, "humidity"))
                @@ ("pressure" :> Get(source_data, "pressure"))
                @@ ("wind_speed" :> Get(source_data, "wind_speed")))
    ELSE IF source_name = "waqi"
    THEN LET c1 == IF "PM2.5" \notin DOMAIN combined
                   THEN Update(combined, "PM2.5" :> Get(source_data, "pm25"))
                   ELSE combined
             c2 == IF "PM10" \notin DOMAIN c1
                   THEN Update(c1, "PM10" :> Get(source_data, "pm10"))
                   ELSE c1
         IN IF "AQI" \notin DOMAIN c2
            THEN Update(c2, "AQI" :> Get(source_data, "aqi"))
            ELSE c2
    ELSE combined

\* mutant: the AirVisual branch keeps an 'AQI' that is already set
apply_source_av_fill(combined, source_name, source_data) ==
    IF source_name = "openweather"
    THEN Update(combined,
                ("PM2.5" :> Get(source_data, "pm2_5"))
                @@ ("PM10" :> Get(source_data, "pm10"))
                @@ ("NO2" :> Get(source_data, "no2"))
                @@ ("SO2" :> Get(source_data, "so2"))
                @@ ("CO" :> Get(source_data, "co"))
                @@ ("O3" :> Get(source_data, "o3")))
    ELSE IF source_name = "airvisual"
    THEN Update(combined,
                (IF "AQI" \in DOMAIN combined THEN "AQI" :> combined["AQI"]
                 ELSE "AQI" :> Get(source_data, "aqi_us"))
                @@ ("temperature" :> Get(source_data, "temperature"))
                @@ ("humidity" :> Get(source_data, "humidity"))
                @@ ("pressure" :> Get(source_data, "pressure"))
                @@ ("wind_speed" :> Get(source_data, "wind_speed")))
    ELSE IF source_name = "waqi"
    THEN LET c1 == IF "PM2.5" \notin DOMAIN combined
                   THEN Update(combined, "PM2.5" :> Get(source_data, "pm25"))
                   ELSE combined
             c2 == IF "PM10" \notin DOMAIN c1
                   THEN Update(c1, "PM10" :> Get(source_data, "pm10"))
                   ELSE c1
         IN IF "AQI" \notin DOMAIN c2
            THEN Update(c2, "AQI" :> Get(source_data, "aqi"))
            ELSE c2
    ELSE combined

\* mutant: the WAQI branch writes its three values without the
\* "not in combined" tests
apply_source_waqi_update(combined, source_name, source_data) ==
    IF source_name = "openweather"
    THEN Update(combined,
                ("PM2.5" :> Get(source_data, "pm2_5"))
                @@ ("PM10" :> Get(source_data, "pm10"))
                @@ ("NO2" :> Get(source_data, "no2"))
                @@ ("SO2" :> Get(source_data, "so2"))
                @@ ("CO" :> Get(source_data, "co"))
                @@ ("O3" :> Get(source_data, "o3")))
    ELSE IF source_name = "airvisual"
    THEN Update(combined,
                ("AQI" :> Get(source_data, "aqi_us"))
                @@ ("temperature" :> Get(source_data, "temperature"))
                @@ ("humidity" :> Get(source_data, "humidity"))
                @@ ("pressure" :> Get(source_data, "pressure"))
                @@ ("wind_speed" :> Get(source_data, "wind_speed")))
    ELSE IF source_name = "waqi"
    THEN Update(combined,
                ("PM2.5" :> Get(source_data, "pm25"))
                @@ ("PM10" :> Get(source_data, "pm10"))
                @@ ("AQI" :> Get(source_data, "aqi")))
    ELSE combined

\* mutant: the openweather branch also copies the payload's aqi
apply_source_ow_aqi(combined, source_name, source_data) ==
    IF source_name = "openweather"
    THEN Update(combined,
                ("AQI" :> Get(source_data, "aqi"))
                @@ ("PM2.5" :> Get(source_data, "pm2_5"))
                @@ ("PM10" :> Get(source_data, "pm10"))
                @@ ("NO2" :> Get(source_data, "no2"))
                @@ ("SO2" :> Get(source_data, "so2"))
                @@ ("CO" :> Get(source_data, "co"))
                @@ ("O3" :> Get(source_data, "o3")))
    ELSE IF source_name = "airvisual"
    THEN Update(combined,
                ("AQI" :> Get(source_data, "aqi_us"))
                @@ ("temperature" :> Get(source_data, "temperature"))
                @@ ("humidity" :> Get(source_data, "humidity"))
                @@ ("pressure" :> Get(source_data, "pressure"))
                @@ ("wind_speed" :> Get(source_data, "wind_speed")))
    ELSE IF source_name = "waqi"
    THEN LET c1 == IF "PM2.5" \notin DOMAIN combined
                   THEN Update(combined, "PM2.5" :> Get(source_data, "pm25"))
                   ELSE combined
             c2 == IF "PM10" \notin DOMAIN c1
                   THEN Update(c1, "PM10" :> Get(source_data, "pm10"))
                   ELSE c1
         IN IF "AQI" \notin DOMAIN c2
            THEN Update(c2, "AQI" :> Get(source_data, "aqi"))
            ELSE c2
    ELSE combined

\* one iteration of the loop over data_sources.items()
apply_source(combined, source_name, source_data) ==
    IF source_name = "openweather"
    THEN Update(combined,
                ("PM2.5" :> Get(source_data, "pm2_5"))
                @@ ("PM10" :> Get(source_data, "pm10"))
                @@ ("NO2" :> Get(source_data, "no2"))
                @@ ("SO2" :> Get(source_data, "so2"))
                @@ ("CO" :> Get(source_data, "co"))
                @@ ("O3" :> Get(source_data, "o3")))
    ELSE IF source_name = "airvisual"
    THEN Update(combined,
                ("AQI" :> Get(source_data, "aqi_us"))
                @@ ("temperature" :> Get(source_data, "temperature"))
                @@ ("humidity" :> Get(source_data, "humidity"))
                @@ ("pressure" :> Get(source_data, "pressure"))
                @@ ("wind_speed" :> Get(source_data, "wind_speed")))
    ELSE IF source_name = "waqi"
    THEN LET c1 == IF "PM2.5" \notin DOMAIN combined
                   THEN Update(combined, "PM2.5" :> Get(source_data, "pm25"))
                   ELSE combined
             c2 == IF "PM10" \notin DOMAIN c1
                   THEN Update(c1, "PM10" :> Get(source_data, "pm10"))
                   ELSE c1
         IN IF "AQI" \notin DOMAIN c2
            THEN Update(c2, "AQI" :> Get(source_data, "aqi"))
            ELSE c2
    ELSE combined

\* the loop over data_sources.items(), in the mapping's key order
RECURSIVE apply_sources(_, _, _)
apply_sources(combined, sources, i) ==
    IF i > Len(sources) THEN combined
    ELSE apply_sources(apply_source(combined, sources[i][1], sources[i][2]),
                       sources, i + 1)

\* mutant: the AQI derived from the PM10 concentration
derive_aqi_pm10(combined) ==
    IF "AQI" \notin DOMAIN combined /\ Truthy(Get(combined, "PM10"))
    THEN Update(combined, "AQI" :> Some(calculate_aqi_from_pm25(combined["PM10"][1])))
    ELSE combined

\* if 'AQI' not in combined and combined.get('PM2.5'): derive the AQI;
\* calculate_aqi_from_pm25 compares its argument with 12.0, which raises
\* TypeError for a string
derive_aqi(combined) ==
    IF "AQI" \notin DOMAIN combined /\ Truthy(Get(combined, "PM2.5"))
    THEN (IF IsNumber(combined["PM2.5"])
          THEN Update(combined,
                      "AQI" :> Some(calculate_aqi_from_pm25(combined["PM2.5"][1])))
          ELSE Update(combined, "raised" :> "TypeError"))
    ELSE combined

\* mutant: the category set only when the record has an 'AQI' key
categorize_if_present(combined) ==
    IF "raised" \in DOMAIN combined \/ "AQI" \notin DOMAIN combined
    THEN combined
    ELSE IF combined["AQI"] = Absent
    THEN Update(combined, "raised" :> "TypeError")
    ELSE Update(combined,
                ("category" :> CategoryCombine(combined["AQI"][1]).category)
                @@ ("color" :> CategoryCombine(combined["AQI"][1]).color))

\* aqi = combined.get('AQI', 0) and the category chain; comparing an 'AQI'
\* that is None with 50 raises TypeError
categorize(combined) ==
    LET aqi == IF "AQI" \in DOMAIN combined THEN combined["AQI"] ELSE Some(RInt(0))
    IN IF "raised" \in DOMAIN combined
       THEN combined
       ELSE IF aqi = Absent
       THEN Update(combined, "raised" :> "TypeError")
       ELSE Update(combined,
                   ("category" :> CategoryCombine(aqi[1]).category)
                   @@ ("color" :> CategoryCombine(aqi[1]).color))

\* list(data_sources.keys())
Keys(sources) == [i \in 1..Len(sources) |-> sources[i][1]]

combine_data_sources(sources) ==
    categorize(derive_aqi(apply_sources("sources_used" :> Keys(sources), sources, 1)))

(***************************************************************************)
(* The payloads the three fetch functions build.  OpenWeather's 'aqi' is   *)
(* its own 1-5 scale and its components are passed on unchecked; WAQI's    *)
(* pm25 and pm10 may be None.                                              *)
(***************************************************************************)
OpenWeatherPayloads ==
    { ("aqi" :> Some(RInt(a))) @@ ("pm2_5" :> p25) @@ ("pm10" :> Some(p10))
      @@ ("no2" :> Some(150)) @@ ("so2" :> Some(50)) @@ ("co" :> Some(3000))
      @@ ("o3" :> Some(600)) @@ ("source" :> "OpenWeatherMap") :
        a \in {2, 5}, p25 \in {Some(0), Some(400), Some(1000), JsonText},
        p10 \in {0, 800} }

AirVisualPayloads ==
    { ("aqi_us" :> Some(RInt(a))) @@ ("temperature" :> Some(305))
      @@ ("humidity" :> Some(60)) @@ ("pressure" :> Some(1010))
      @@ ("wind_speed" :> Some(35)) @@ ("source" :> "AirVisual") :
        a \in {42, 155} }

WaqiPayloads ==
    { ("aqi" :> Some(RInt(a))) @@ ("pm25" :> p25) @@ ("pm10" :> p10)
      @@ ("source" :> "WAQI") :
        a \in {60, 310}, p25 \in {Absent, Some(250), Some(400)},
        p10 \in {Absent, Some(900)} }

SourceNames == {"openweather", "airvisual", "waqi"}

\* the key orders a data_sources mapping can have: every sequence of
\* distinct source names
KeyOrders ==
    { o \in UNION { [1..n -> SourceNames] : n \in 0..3 } :
        \A i, j \in DOMAIN o : i # j => o[i] # o[j] }

(***************************************************************************)
(* SpecCombine: combine_data_sources applied to one mapping.               *)
(***************************************************************************)
InitCombine ==
    /\ \E o \in KeyOrders, ow \in OpenWeatherPayloads, av \in AirVisualPayloads,
            wq \in WaqiPayloads :
            data_sources =
                [i \in DOMAIN o |->
                    <<o[i], IF o[i] = "openweather" THEN ow
                            ELSE IF o[i] = "airvisual" THEN av ELSE wq>>]
    /\ combined_out = Absent
    /\ IdleAqi
    /\ IdleCategory
    /\ IdleService
    /\ IdleReading

ApplyCombine ==
    /\ combined_out = Absent
    /\ combined_out' = Some(combine_data_sources(data_sources))
    /\ UNCHANGED <<data_sources, aqiVars, catVars, svcVars, readVars>>

NextCombine == ApplyCombine

SpecCombine == InitCombine /\ [][NextCombine]_vars

\* the payload of source name in the mapping, <<>> when the source is absent
PayloadOf(sources, name) ==
    IF \E i \in DOMAIN sources : sources[i][1] = name
    THEN Some(sources[CHOOSE i \in DOMAIN sources : sources[i][1] = name][2])
    ELSE Absent

(***************************************************************************)
(* C5: given payloads of which none supplies an AQI (no AirVisual aqi_us,  *)
(* no WAQI aqi) and whose PM2.5 is 40, the combined 'AQI' is the AQI       *)
(* calculate_aqi_from_pm25 gives for 40 (111.5) and the category is the    *)
(* category of that AQI (Moderate).                                        *)
(***************************************************************************)
NoAqiSupplied(sources) ==
    \A i \in DOMAIN sources :
        /\ Get(sources[i][2], "aqi_us") = Absent
        /\ (sources[i][1] = "waqi" => Get(sources[i][2], "aqi") = Absent)

C5_DerivedAqi ==
    (combined_out # Absent /\ NoAqiSupplied(data_sources)
        /\ \E i \in DOMAIN data_sources :
                Get(data_sources[i][2], "pm2_5") = Some(400)
                \/ Get(data_sources[i][2], "pm25") = Some(400)) =>
        /\ "AQI" \in DOMAIN combined_out[1]
        /\ combined_out[1]["AQI"] # Absent
        /\ REq(combined_out[1]["AQI"][1], calculate_aqi_from_pm25(400))
        /\ REq(combined_out[1]["AQI"][1], Rat(223, 2))
        /\ combined_out[1]["category"] = "Moderate"
        /\ combined_out[1]["color"] = "#ff7e00"

C5_Witness ==
    /\ combined_out # Absent
    /\ Keys(data_sources) = <<"openweather">>
    /\ data_sources[1][2]["pm2_5"] = Some(400)
    /\ REq(combined_out[1]["AQI"][1], Rat(223, 2))

(***************************************************************************)
(* C6: when the OpenWeather and the WAQI payloads are both present with    *)
(* different PM2.5 (PM10) values, the combined PM2.5 (PM10) is exactly the *)
(* OpenWeather value, whatever the order of the sources in data_sources.   *)
(***************************************************************************)
C6_OpenWeatherWins ==
    (combined_out # Absent
        /\ PayloadOf(data_sources, "openweather") # Absent
        /\ PayloadOf(data_sources, "waqi") # Absent) =>
        LET ow == PayloadOf(data_sources, "openweather")[1]
            wq == PayloadOf(data_sources, "waqi")[1]
        IN /\ (wq["pm25"] # Absent /\ wq["pm25"] # ow["pm2_5"]) =>
                    combined_out[1]["PM2.5"] = ow["pm2_5"]
           /\ (wq["pm10"] # Absent /\ wq["pm10"] # ow["pm10"]) =>
                    combined_out[1]["PM10"] = ow["pm10"]

\* WAQI comes first in the mapping and its PM2.5 differs from OpenWeather's
C6_Witness ==
    /\ combined_out # Absent
    /\ Keys(data_sources) = <<"waqi", "openweather">>
    /\ data_sources[1][2]["pm25"] = Some(250)
    /\ data_sources[2][2]["pm2_5"] = Some(400)
    /\ combined_out[1]["PM2.5"] = Some(400)

(***************************************************************************)
(* real_data_fetcher.py: the fetcher object and its three fetch functions. *)
(***************************************************************************)
\* the attributes __init__ sets on the fetcher
FetcherAttrs == {"openweather_api_key", "city_coords"}

\* the keys of city_coords, and of fetch_airvisual_data's city_mapping
city_coords == {"Mumbai", "Delhi", "Bangalore", "Chennai", "Kolkata", "Hyderabad"}
city_mapping == {"Mumbai", "Delhi", "Bangalore", "Chennai", "Kolkata", "Hyderabad"}

\* what the provider does with one requests.get: no answer within the
\* timeout, a non-2xx status, a body that is not the expected JSON, a body
\* reporting an error in its status field, or the expected body
HttpOutcomes == {"timeout", "http_error", "malformed", "api_error", "ok"}

\* The result of one fetch function: ret is the payload or None, sent
\* whether requests.get was called, exc the exception swallowed ("" if none).
FetchResult(ret, wasSent, exc) == [ret |-> ret, sent |-> wasSent, exc |-> exc]

\* after requests.get: raise_for_status, response.json() and the extraction
AfterGet(outcome, payload, statusChecked) ==
    IF outcome = "timeout" THEN FetchResult(Absent, TRUE, "Timeout")
    ELSE IF outcome = "http_error" THEN FetchResult(Absent, TRUE, "HTTPError")
    ELSE IF outcome = "malformed" THEN FetchResult(Absent, TRUE, "KeyError")
    ELSE IF outcome = "api_error"
    THEN (IF statusChecked THEN FetchResult(Absent, TRUE, "")
          ELSE FetchResult(Absent, TRUE, "KeyError"))
    ELSE FetchResult(Some(payload), TRUE, "")

fetch_openweather_pollution(city, outcome, payload) ==
    IF city \notin city_coords THEN FetchResult(Absent, FALSE, "ValueError")
    ELSE IF "openweather_api_key" \notin FetcherAttrs
    THEN FetchResult(Absent, FALSE, "AttributeError")
    ELSE AfterGet(outcome, payload, FALSE)

fetch_airvisual_data(city, outcome, payload) ==
    IF city \notin city_mapping THEN FetchResult(Absent, FALSE, "ValueError")
    ELSE IF "airvisual_api_key" \notin FetcherAttrs
    THEN FetchResult(Absent, FALSE, "AttributeError")
    ELSE AfterGet(outcome, payload, TRUE)

\* mutant: the fetcher has a waqi_token attribute
fetch_waqi_data_with_token(city, outcome, payload) ==
    AfterGet(outcome, payload, TRUE)

fetch_waqi_data(city, outcome, payload) ==
    IF "waqi_token" \notin FetcherAttrs
    THEN FetchResult(Absent, FALSE, "AttributeError")
    ELSE AfterGet(outcome, payload, TRUE)

\* mutant: the payload stored whatever the fetch returned
\* (results[name] = data without the if)
StoreResult_unconditional(res, name, data) ==
    Append(res, <<name, IF data = Absent THEN <<>> ELSE data[1]>>)

\* if data: results[name] = data
StoreResult(res, name, data) ==
    IF data # Absent THEN Append(res, <<name, data[1]>>) ELSE res

\* mutant: combine_data_sources called without the "if results" test
fetch_combined_end_always(res) ==
    [ret |-> Some(combine_data_sources(res)), combine_calls |-> 1]

\* the end of fetch_combined_data: combine when results is not empty, else
\* return None
fetch_combined_end(res) ==
    IF res # <<>>
    THEN [ret |-> Some(combine_data_sources(res)), combine_calls |-> 1]
    ELSE [ret |-> Absent, combine_calls |-> 0]

(***************************************************************************)
(* app.py: the generators behind the endpoints.                            *)
(***************************************************************************)
base_pollution ==
    ("Mumbai" :> 80) @@ ("Delhi" :> 150) @@ ("Bangalore" :> 60)
    @@ ("Chennai" :> 70) @@ ("Kolkata" :> 100) @@ ("Hyderabad" :> 75)

\* mutant: the default of an unknown city is 0
base_pollution_get_zero(city) ==
    IF city \in DOMAIN base_pollution THEN base_pollution[city] ELSE 0

\* base_pollution.get(city, 75)
base_pollution_get(city) ==
    IF city \in DOMAIN base_pollution THEN base_pollution[city] ELSE 75

\* rush_hour_effect, in tenths
rush_hour_effect(current_hour) ==
    IF current_hour \in {7, 8, 9, 18, 19, 20} THEN 13 ELSE 10

Max2(a, b) == IF a >= b THEN a ELSE b

\* generate_current_conditions(city) at clock hour e.hour with the random
\* draws e.u_pm25, e.f_pm10 (tenths), e.u_pm10, e.u_no2.  pm25 is in tenths,
\* pm10 and no2 in hundredths, aqi in thousandths.  The keys SO2, CO, O3,
\* temperature, humidity, wind_speed, pressure and timestamp are random
\* values of their own and left out.
generate_current_conditions(city, e) ==
    LET base == base_pollution_get(city)
        rush == rush_hour_effect(e.hour)
        pm25 == Max2(100, base * rush + e.u_pm25 * 10)
        pm10 == pm25 * e.f_pm10 + e.u_pm10 * 100
        no2 == base * 4 * rush + e.u_no2 * 100
        aqi == Max2(pm25 * 220, Max2(pm10 * 11, no2 * 18))
        cat == CategoryCurrent(Rat(aqi, 1000))
    IN ("PM2.5" :> pm25) @@ ("PM10" :> Round(Rat(pm10, 10)))
       @@ ("NO2" :> Round(Rat(no2, 10))) @@ ("AQI" :> Round(Rat(aqi, 1000)))
       @@ ("category" :> cat.category) @@ ("color" :> cat.color)

\* list(range(0, hours, step))
RECURSIVE RangeStep(_, _, _)
RangeStep(from, to, step) ==
    IF from >= to THEN <<>> ELSE <<from>> \o RangeStep(from + step, to, step)

\* mutant: the two-day horizon tested as hours < 48
forecast_step_strict(hours) ==
    IF hours < 48 THEN 1 ELSE IF hours <= 168 THEN 2 ELSE 4

\* if hours <= 48: step = 1 / elif hours <= 168: step = 2 / else: step = 4
forecast_step(hours) ==
    IF hours <= 48 THEN 1 ELSE IF hours <= 168 THEN 2 ELSE 4

\* generate_mock_forecast(city, hours): the base level used and the hour
\* offset of each prediction (its pollutant values are fresh random draws
\* scaled by base and are left out)
generate_mock_forecast(city, hours) ==
    [base |-> base_pollution_get(city),
     predictions |-> RangeStep(0, hours, forecast_step(hours))]

\* historical[::-1]
Reverse(q) == [i \in 1..Len(q) |-> q[Len(q) + 1 - i]]

\* end_date = datetime.now(): the proleptic ordinal of today's date
\* (date(1, 1, 1) has ordinal 1, 2026-11-03 has 739923)
TodayOrdinal == 739923

\* end_date - timedelta(days=day): the ordinal of the date, or 0 when the
\* subtraction raises OverflowError (no date lies before 0001-01-01)
date_minus_days(day) ==
    IF day >= TodayOrdinal THEN 0 ELSE TodayOrdinal - day

\* generate_historical_data(city, days): the base level used and, oldest
\* first, how many days before today each entry is dated; the loop over
\* range(days) raises at the first day whose date does not exist
generate_historical_data(city, days) ==
    IF days >= 1 /\ date_minus_days(days - 1) = 0
    THEN [raised |-> "OverflowError", base |-> base_pollution_get(city), data |-> <<>>]
    ELSE [raised |-> "", base |-> base_pollution_get(city),
          data |-> Reverse(RangeStep(0, days, 1))]

\* mutant: the first level tested as aqi < 50
generate_health_recommendations_strict(aqi) ==
    IF aqi < 50 THEN [level |-> "Good", color |-> "green", precautions |-> 0]
    ELSE IF aqi <= 100 THEN [level |-> "Satisfactory", color |-> "yellow", precautions |-> 1]
    ELSE IF aqi <= 200 THEN [level |-> "Moderate", color |-> "orange", precautions |-> 3]
    ELSE [level |-> "Unhealthy", color |-> "red", precautions |-> 3]

\* generate_health_recommendations(aqi): the level and the number of
\* precautions listed
generate_health_recommendations(aqi) ==
    IF aqi <= 50 THEN [level |-> "Good", color |-> "green", precautions |-> 0]
    ELSE IF aqi <= 100 THEN [level |-> "Satisfactory", color |-> "yellow", precautions |-> 1]
    ELSE IF aqi <= 200 THEN [level |-> "Moderate", color |-> "orange", precautions |-> 3]
    ELSE [level |-> "Unhealthy", color |-> "red", precautions |-> 3]

(***************************************************************************)
(* Requests.  A JSON parameter is [t, v]: t = "absent" (no such key),      *)
(* "null", "text" (a string that is no number), "int" (the integer v).     *)
(* The JSON object of a request is the record of its four parameters.      *)
(***************************************************************************)
NoParam == [t |-> "absent", v |-> 0]
IntParam(n) == [t |-> "int", v |-> n]
BadParams == {[t |-> "null", v |-> 0], [t |-> "text", v |-> 0]}

\* int(data.get(key, default)): the integer, or the exception int() raises
PyInt(param, default) ==
    IF param.t = "absent" THEN [exc |-> "", v |-> default]
    ELSE IF param.t = "int" THEN [exc |-> "", v |-> param.v]
    ELSE IF param.t = "text" THEN [exc |-> "ValueError", v |-> 0]
    ELSE [exc |-> "TypeError", v |-> 0]

RequestCities == city_coords \cup {"Pune"}

Json(cityGiven, cityName, hours, days, aqi) ==
    [has_city |-> cityGiven, city |-> cityName, hours |-> hours, days |-> days,
     aqi |-> aqi]

EmptyJson == Json(FALSE, "", NoParam, NoParam, NoParam)

CurrentBodies ==
    {Absent, Some(EmptyJson)}
    \cup {Some(Json(TRUE, c, NoParam, NoParam, NoParam)) : c \in RequestCities}

HoursParams ==
    {NoParam} \cup BadParams
    \cup {IntParam(n) : n \in {-1, 0, 1, 3, 48, 49, 50, 167, 168, 169}}
ForecastBodies ==
    {Absent, Some(EmptyJson)}
    \cup {Some(Json(FALSE, "", h, NoParam, NoParam)) : h \in HoursParams}
    \cup {Some(Json(TRUE, c, h, NoParam, NoParam)) : c \in RequestCities, h \in HoursParams}

DaysParams ==
    {NoParam} \cup BadParams \cup {IntParam(n) : n \in {-1, 0, 1, 3, 1000000}}
HistoricalBodies ==
    {Absent, Some(EmptyJson)}
    \cup {Some(Json(FALSE, "", d, NoParam, NoParam)) : d \in DaysParams}
    \cup {Some(Json(TRUE, c, NoParam, d, NoParam)) : c \in RequestCities, d \in DaysParams}

AqiParams ==
    {NoParam} \cup BadParams
    \cup {IntParam(n) : n \in {-5, 0, 50, 51, 100, 101, 200, 201, 301}}
HealthBodies ==
    {Absent} \cup {Some(Json(FALSE, "", NoParam, NoParam, a)) : a \in AqiParams}

\* "not data": None or an empty object
NotData(b) == b = Absent \/ b[1] = EmptyJson

\* jsonify(...) with its status: data_type is "" on the routes that have none
Response(status, success, error, dataType, data) ==
    [status |-> status, success |-> success, error |-> error,
     data_type |-> dataType, data |-> data]

\* str(e) of the exception named exc
StrOf(exc) == "str(e) of " \o exc

(***************************************************************************)
(* app.py init_models and forecaster.py load_models / train_models.        *)
(*                                                                         *)
(* The artifacts on disk are "present" (both files), "missing" (neither),  *)
(* "models_only" (pollution_models.pkl without pollution_scalers.pkl) or   *)
(* "corrupt" (a file joblib cannot load).                                  *)
(***************************************************************************)
ArtifactStates == {"missing", "present", "models_only", "corrupt"}

\* mutant: load_models catches every exception and returns False
load_models_catch_all(art) ==
    IF art = "present" THEN "True" ELSE "False"

\* load_models: True, False (FileNotFoundError caught), or "raised" for any
\* other exception out of joblib.load
load_models(art) ==
    IF art = "present" THEN "True"
    ELSE IF art \in {"missing", "models_only"} THEN "False"
    ELSE "raised"

\* the completed trainings counted
MaxTrainings == 2

\* how generate_synthetic_data, preprocess_data and train_models (which ends
\* with save_models) can end
TrainOutcomes ==
    {"ok", "generate_raised", "preprocess_raised", "train_raised", "dump_scalers_raised"}

\* mutant: train_models returns without calling save_models
init_models_no_save(art, outcome) ==
    LET loaded == load_models(art)
    IN IF loaded = "raised"
       THEN [models_loaded |-> FALSE, artifacts |-> art,
             events |-> [load |-> "raised", train |-> ""]]
       ELSE IF loaded = "True"
       THEN [models_loaded |-> TRUE, artifacts |-> art,
             events |-> [load |-> "True", train |-> ""]]
       ELSE IF outcome \in {"ok", "dump_scalers_raised"}
       THEN [models_loaded |-> TRUE, artifacts |-> art,
             events |-> [load |-> "False", train |-> "ok"]]
       ELSE [models_loaded |-> FALSE, artifacts |-> art,
             events |-> [load |-> "False", train |-> outcome]]

\* init_models: the flag it sets, the artifacts it leaves, and what it went
\* through
init_models(art, outcome) ==
    LET loaded == load_models(art)
    IN IF loaded = "raised"
       THEN [models_loaded |-> FALSE, artifacts |-> art,
             events |-> [load |-> "raised", train |-> ""]]
       ELSE IF loaded = "True"
       THEN [models_loaded |-> TRUE, artifacts |-> art,
             events |-> [load |-> "True", train |-> ""]]
       ELSE IF outcome = "ok"
       THEN [models_loaded |-> TRUE, artifacts |-> "present",
             events |-> [load |-> "False", train |-> "ok"]]
       ELSE [models_loaded |-> FALSE,
             artifacts |-> IF outcome = "dump_scalers_raised" THEN "models_only" ELSE art,
             events |-> [load |-> "False", train |-> outcome]]

(***************************************************************************)
(* Spec: the service.  Requests are handled one at a time; init_models     *)
(* runs before every request (before_request).                             *)
(***************************************************************************)
Init ==
    /\ IdleHandlers
    /\ artifacts \in ArtifactStates
    /\ IdleReading
    /\ IdleAqi
    /\ IdleCategory
    /\ IdleCombine

\* what the handlers of a request leave alone
otherVars == <<aqiVars, readVars, catVars, combVars, initVars>>

\* a request arrives on one of the four POST routes
ReceiveRequest ==
    /\ pc \in {"idle", "done"}
    /\ \E e \in {"/", "/api/data-sources", "/api/current", "/api/forecast",
                 "/api/historical", "/api/health-recommendations"} :
        /\ endpoint' = e
        /\ body' \in (IF e \in {"/", "/api/data-sources"} THEN {Absent}
                      ELSE IF e = "/api/current" THEN CurrentBodies
                      ELSE IF e = "/api/forecast" THEN ForecastBodies
                      ELSE IF e = "/api/historical" THEN HistoricalBodies
                      ELSE HealthBodies)
    /\ pc' = "init"
    /\ results' = <<>> /\ calls' = <<>> /\ sent' = <<>> /\ failed' = {}
    /\ combine_calls' = 0 /\ real_data' = Absent
    /\ env' = Absent /\ response' = Absent
    /\ UNCHANGED otherVars

\* before_request: initialize() calls init_models()
InitModels ==
    /\ pc = "init"
    /\ \E outcome \in TrainOutcomes :
        LET r == init_models(artifacts, outcome)
        IN /\ models_loaded' = r.models_loaded
           /\ artifacts' = r.artifacts
           /\ init_events' = r.events
           /\ trainings' = IF r.events.train = "ok" /\ trainings < MaxTrainings
                           THEN trainings + 1 ELSE trainings
    /\ pc' = "handle"
    /\ UNCHANGED <<endpoint, body, fetchVars, env, response, aqiVars, readVars,
                   catVars, combVars>>

\* index(): the health check, which reports the flag
HandleIndex ==
    /\ pc = "handle" /\ endpoint = "/"
    /\ response' = Some([status |-> 200, message |-> "Air Pollution Forecasting API",
                         models_loaded |-> models_loaded])
    /\ pc' = "done"
    /\ UNCHANGED <<endpoint, body, fetchVars, env, otherVars>>

\* {'status': 'active' if data else 'inactive'} of one provider
source_status(data) ==
    IF data # Absent THEN "active" ELSE "inactive"

\* get_data_sources: each fetch function is tried once for test_city, and
\* total_active counts the providers that returned a payload
HandleDataSources ==
    /\ pc = "handle" /\ endpoint = "/api/data-sources"
    /\ \E ow_outcome \in HttpOutcomes, ow_payload \in OpenWeatherPayloads,
          av_outcome \in HttpOutcomes, av_payload \in AirVisualPayloads,
          waqi_outcome \in HttpOutcomes, waqi_payload \in WaqiPayloads :
        LET test_city == "Mumbai"
            ow == fetch_openweather_pollution(test_city, ow_outcome, ow_payload)
            av == fetch_airvisual_data(test_city, av_outcome, av_payload)
            waqi == fetch_waqi_data(test_city, waqi_outcome, waqi_payload)
            fetched == <<<<"openweather", ow>>, <<"airvisual", av>>, <<"waqi", waqi>>>>
            sources_status ==
                [openweather |-> source_status(ow.ret),
                 airvisual |-> source_status(av.ret),
                 waqi |-> source_status(waqi.ret)]
        IN /\ calls' = <<"openweather", "airvisual", "waqi">>
           /\ sent' = SelectSeq(calls', LAMBDA n :
                         \E i \in 1..3 : fetched[i][1] = n /\ fetched[i][2].sent)
           /\ failed' = {<<fetched[i][1], fetched[i][2].exc>> :
                           i \in {j \in 1..3 : fetched[j][2].ret = Absent}}
           /\ response' = Some([status |-> 200, success |-> TRUE,
                                sources |-> sources_status,
                                total_active |->
                                    Cardinality({n \in DOMAIN sources_status :
                                                    sources_status[n] = "active"})])
    /\ pc' = "done"
    /\ UNCHANGED <<endpoint, body, results, combine_calls, real_data, env, otherVars>>

\* get_current_conditions up to the call of fetch_combined_data
CurrentParse ==
    /\ pc = "handle" /\ endpoint = "/api/current"
    /\ IF NotData(body) \/ ~body[1].has_city
       THEN /\ response' = Some(Response(400, FALSE, "City parameter is required", "", Absent))
            /\ pc' = "done"
       ELSE /\ pc' = "fetch_openweather"
            /\ UNCHANGED response
    /\ UNCHANGED <<endpoint, body, fetchVars, env, otherVars>>

\* fetch_combined_data: openweather_data = self.fetch_openweather_pollution(city)
FetchOpenWeather ==
    /\ pc = "fetch_openweather"
    /\ \E outcome \in HttpOutcomes, payload \in OpenWeatherPayloads :
        LET r == fetch_openweather_pollution(body[1].city, outcome, payload)
        IN /\ results' = StoreResult(results, "openweather", r.ret)
           /\ calls' = Append(calls, "openweather")
           /\ sent' = IF r.sent THEN Append(sent, "openweather") ELSE sent
           /\ failed' = IF r.ret = Absent THEN failed \cup {<<"openweather", r.exc>>} ELSE failed
    /\ pc' = "fetch_airvisual"
    /\ UNCHANGED <<endpoint, body, combine_calls, real_data, env, response, otherVars>>

\* fetch_combined_data: airvisual_data = self.fetch_airvisual_data(city)
FetchAirVisual ==
    /\ pc = "fetch_airvisual"
    /\ \E outcome \in HttpOutcomes, payload \in AirVisualPayloads :
        LET r == fetch_airvisual_data(body[1].city, outcome, payload)
        IN /\ results' = StoreResult(results, "airvisual", r.ret)
           /\ calls' = Append(calls, "airvisual")
           /\ sent' = IF r.sent THEN Append(sent, "airvisual") ELSE sent
           /\ failed' = IF r.ret = Absent THEN failed \cup {<<"airvisual", r.exc>>} ELSE failed
    /\ pc' = "fetch_waqi"
    /\ UNCHANGED <<endpoint, body, combine_calls, real_data, env, response, otherVars>>

\* fetch_combined_data: waqi_data = self.fetch_waqi_data(city)
FetchWaqi ==
    /\ pc = "fetch_waqi"
    /\ \E outcome \in HttpOutcomes, payload \in WaqiPayloads :
        LET r == fetch_waqi_data(body[1].city, outcome, payload)
        IN /\ results' = StoreResult(results, "waqi", r.ret)
           /\ calls' = Append(calls, "waqi")
           /\ sent' = IF r.sent THEN Append(sent, "waqi") ELSE sent
           /\ failed' = IF r.ret = Absent THEN failed \cup {<<"waqi", r.exc>>} ELSE failed
    /\ pc' = "fetch_end"
    /\ UNCHANGED <<endpoint, body, combine_calls, real_data, env, response, otherVars>>

\* fetch_combined_data: "if results: ... else: return None"
FetchEnd ==
    /\ pc = "fetch_end"
    /\ LET r == fetch_combined_end(results)
       IN /\ real_data' = r.ret
          /\ combine_calls' = combine_calls + r.combine_calls
    /\ pc' = "respond"
    /\ UNCHANGED <<endpoint, body, results, calls, sent, failed, env, response, otherVars>>

\* mutant: the fetch is not wrapped in the inner try, an exception out of
\* fetch_combined_data reaches the outer except
current_data_type_no_inner_try(real) ==
    IF real = Absent THEN "synthetic"
    ELSE IF "raised" \in DOMAIN real[1] THEN "error"
    ELSE "real"

\* get_current_conditions, the inner try: 'real' when fetch_combined_data
\* returned a record (a non-empty dict is truthy); 'synthetic' when it
\* returned None or raised (the inner except catches every Exception)
current_data_type(real) ==
    IF real # Absent /\ "raised" \notin DOMAIN real[1] THEN "real" ELSE "synthetic"

\* get_current_conditions after the fetch: real data if there is any, else
\* synthetic data; an exception outside the inner try is answered by the
\* outer except
CurrentRespond ==
    /\ pc = "respond"
    /\ LET data_type == current_data_type(real_data)
       IN IF data_type = "real"
          THEN /\ env' = env
               /\ response' = Some(Response(200, TRUE, "", "real", real_data[1]))
          ELSE IF data_type = "synthetic"
          THEN /\ env' \in {Some([hour |-> h, u_pm25 |-> a, f_pm10 |-> f, u_pm10 |-> b,
                                   u_no2 |-> c]) :
                               h \in {8, 12}, a \in {-20, 25}, f \in {16, 20},
                               b \in {-15, 20}, c \in {-12, 15}}
               /\ response' = Some(Response(200, TRUE, "", "synthetic",
                                   generate_current_conditions(body[1].city, env'[1])))
          ELSE /\ env' = env
               /\ response' = Some(Response(500, FALSE, StrOf(real_data[1]["raised"]),
                                            "", Absent))
    /\ pc' = "done"
    /\ UNCHANGED <<endpoint, body, fetchVars, otherVars>>

\* mutant: the lower limit tested as hours < 0
hours_out_of_range_from_zero(hours) == hours < 0 \/ hours > 168

\* if hours < 1 or hours > 168
hours_out_of_range(hours) == hours < 1 \/ hours > 168

\* get_forecast
HandleForecast ==
    /\ pc = "handle" /\ endpoint = "/api/forecast"
    /\ response' =
        IF NotData(body) \/ ~body[1].has_city
        THEN Some(Response(400, FALSE, "City parameter is required", "", Absent))
        ELSE LET hours == PyInt(body[1].hours, 24)
             IN IF hours.exc = "ValueError"
                THEN Some(Response(400, FALSE, "Invalid input: " \o StrOf(hours.exc), "", Absent))
                ELSE IF hours.exc # ""
                THEN Some(Response(500, FALSE, "Internal server error occurred", "", Absent))
                ELSE IF hours_out_of_range(hours.v)
                THEN Some(Response(400, FALSE, "Hours must be between 1 and 168", "", Absent))
                ELSE Some(Response(200, TRUE, "", "",
                          [hours |-> hours.v]
                          @@ generate_mock_forecast(body[1].city, hours.v)))
    /\ pc' = "done"
    /\ UNCHANGED <<endpoint, body, fetchVars, env, otherVars>>

\* get_historical_data
HandleHistorical ==
    /\ pc = "handle" /\ endpoint = "/api/historical"
    /\ response' =
        IF body = Absent
        THEN Some(Response(500, FALSE, StrOf("AttributeError"), "", Absent))
        ELSE LET city == IF body[1].has_city THEN body[1].city ELSE "Mumbai"
                 days == PyInt(body[1].days, 7)
             IN IF days.exc # ""
                THEN Some(Response(500, FALSE, StrOf(days.exc), "", Absent))
                ELSE LET historical_data == generate_historical_data(city, days.v)
                     IN IF historical_data.raised # ""
                        THEN Some(Response(500, FALSE, StrOf(historical_data.raised),
                                           "", Absent))
                        ELSE Some(Response(200, TRUE, "", "",
                                  [days |-> days.v, base |-> historical_data.base,
                                   data |-> historical_data.data]))
    /\ pc' = "done"
    /\ UNCHANGED <<endpoint, body, fetchVars, env, otherVars>>

\* get_health_recommendations
HandleHealth ==
    /\ pc = "handle" /\ endpoint = "/api/health-recommendations"
    /\ response' =
        IF body = Absent
        THEN Some(Response(500, FALSE, StrOf("AttributeError"), "", Absent))
        ELSE LET aqi == PyInt(body[1].aqi, 50)
             IN IF aqi.exc # ""
                THEN Some(Response(500, FALSE, StrOf(aqi.exc), "", Absent))
                ELSE Some(Response(200, TRUE, "", "",
                          [aqi |-> aqi.v] @@ generate_health_recommendations(aqi.v)))
    /\ pc' = "done"
    /\ UNCHANGED <<endpoint, body, fetchVars, env, otherVars>>

Next ==
    \/ ReceiveRequest
    \/ InitModels
    \/ HandleIndex
    \/ HandleDataSources
    \/ CurrentParse
    \/ FetchOpenWeather
    \/ FetchAirVisual
    \/ FetchWaqi
    \/ FetchEnd
    \/ CurrentRespond
    \/ HandleForecast
    \/ HandleHistorical
    \/ HandleHealth

Spec == Init /\ [][Next]_vars

\* the order in which fetch_combined_data calls the fetch functions
FetchOrder == <<"openweather", "airvisual", "waqi">>

FailedNames == {f[1] : f \in failed}

\* the current request carries a city
HasCity == body # Absent /\ body[1].has_city

(***************************************************************************)
(* C7: when all three providers are absent, fetch_combined_data returns    *)
(* None, combine_data_sources is not called, and /api/current answers      *)
(* success=true with data_type 'synthetic'.                                *)
(***************************************************************************)
C7_AllAbsent ==
    (endpoint = "/api/current" /\ calls = FetchOrder /\ FailedNames = SourceNames) =>
        /\ pc \in {"respond", "done"} =>
                (real_data = Absent /\ combine_calls = 0)
        /\ pc = "done" =>
                /\ response # Absent
                /\ response[1].status = 200
                /\ response[1].success
                /\ response[1].data_type = "synthetic"

C7_Witness ==
    /\ pc = "done"
    /\ endpoint = "/api/current"
    /\ HasCity
    /\ body[1].city = "Delhi"
    /\ calls = FetchOrder
    /\ FailedNames = SourceNames
    /\ <<"openweather", "HTTPError">> \in failed
    /\ response[1].data_type = "synthetic"

(***************************************************************************)
(* C8: a request for a city outside the six supported cities does not      *)
(* fail: /api/current, /api/forecast and /api/historical (their other      *)
(* parameters being valid) answer success=true with data generated from    *)
(* the default baseline 75, and /api/current with data_type 'synthetic'.   *)
(***************************************************************************)
C8_UnsupportedCity ==
    (pc = "done" /\ HasCity /\ body[1].city \notin city_coords) =>
        /\ endpoint = "/api/current" =>
                /\ response[1].status = 200 /\ response[1].success
                /\ response[1].data_type = "synthetic"
                /\ response[1].data["PM2.5"] =
                        Max2(100, (IF env[1].hour \in {7, 8, 9, 18, 19, 20}
                                   THEN 75 * 13 ELSE 75 * 10) + env[1].u_pm25 * 10)
        /\ (endpoint = "/api/forecast" /\ body[1].hours.t \in {"absent", "int"}
                /\ (body[1].hours.t = "int" =>
                        (1 <= body[1].hours.v /\ body[1].hours.v <= 168))) =>
                /\ response[1].status = 200 /\ response[1].success
                /\ response[1].data.base = 75
        /\ (endpoint = "/api/historical" /\ body[1].days.t \in {"absent", "int"}
                /\ body[1].days.v <= TodayOrdinal) =>
                /\ response[1].status = 200 /\ response[1].success
                /\ response[1].data.base = 75

C8_Witness ==
    /\ pc = "done"
    /\ endpoint = "/api/current"
    /\ HasCity
    /\ body[1].city = "Pune"
    /\ <<"openweather", "ValueError">> \in failed
    /\ response[1].data_type = "synthetic"
    /\ response[1].data["PM2.5"] = 550

(***************************************************************************)
(* C9: in one fetch_combined_data call each provider is attempted exactly  *)
(* once, in the order OpenWeather, AirVisual, WAQI, whatever the outcome   *)
(* of the earlier ones; a provider that fails is never retried, is left    *)
(* out of sources_used, contributes no field to the combined record, and   *)
(* does not stop the later providers from being attempted.                 *)
(***************************************************************************)
C9_EachProviderOnce ==
    /\ Len(calls) <= 3
    /\ \A i \in DOMAIN calls : calls[i] = FetchOrder[i]
    /\ \A i, j \in DOMAIN sent : sent[i] = sent[j] => i = j
    /\ \A i \in DOMAIN sent : \E j \in DOMAIN calls : calls[j] = sent[i]
    /\ pc = "fetch_airvisual" => Len(calls) = 1
    /\ pc = "fetch_waqi" => Len(calls) = 2
    /\ pc \in {"fetch_end", "respond"} => calls = FetchOrder
    /\ (pc = "done" /\ endpoint = "/api/current" /\ response[1].status = 200) =>
            calls = FetchOrder
    /\ \A i \in DOMAIN results : results[i][1] \notin FailedNames
    /\ real_data # Absent =>
            /\ \A i \in DOMAIN real_data[1]["sources_used"] :
                    real_data[1]["sources_used"][i] \notin FailedNames
            /\ "openweather" \in FailedNames =>
                    {"NO2", "SO2", "CO", "O3"} \cap DOMAIN real_data[1] = {}
            /\ "airvisual" \in FailedNames =>
                    {"temperature", "humidity", "pressure", "wind_speed"}
                        \cap DOMAIN real_data[1] = {}
            /\ ("waqi" \in FailedNames /\ "openweather" \in FailedNames) =>
                    {"PM2.5", "PM10"} \cap DOMAIN real_data[1] = {}

\* OpenWeather timed out: one request was sent to it, and the two later
\* fetch functions were still entered
C9_Witness ==
    /\ pc = "respond"
    /\ <<"openweather", "Timeout">> \in failed
    /\ calls = FetchOrder
    /\ sent = <<"openweather">>
    /\ "airvisual" \in FailedNames
    /\ "waqi" \in FailedNames

(***************************************************************************)
(* C10 as claimed: on every POST endpoint a missing or invalid request     *)
(* parameter (no JSON body; absent city where the handler reads            *)
(* data['city']; non-numeric hours, days or aqi) is answered with HTTP 400 *)
(* and {success: false, error: ...}, never with 500.                       *)
(***************************************************************************)
InvalidRequest ==
    \/ (endpoint \notin {"/", "/api/data-sources"} /\ body = Absent)
    \/ (endpoint \in {"/api/current", "/api/forecast"} /\ ~body[1].has_city)
    \/ (endpoint = "/api/forecast" /\ body[1].hours.t \in {"null", "text"})
    \/ (endpoint = "/api/historical" /\ body[1].days.t \in {"null", "text"})
    \/ (endpoint = "/api/health-recommendations" /\ body[1].aqi.t \in {"null", "text"})

C10_InvalidIs400 ==
    (pc = "done" /\ InvalidRequest) =>
        /\ response[1].status = 400
        /\ ~response[1].success
        /\ response[1].error # ""

\* the messages the handlers send in place of an exception's text
GenericErrors == {"Internal server error occurred", "Internal server error"}

(***************************************************************************)
(* C11 as claimed: an unexpected internal failure is answered with HTTP    *)
(* 500 and a generic error message; the text of the internal exception     *)
(* never appears in the response body.                                     *)
(***************************************************************************)
C11_GenericOn500 ==
    (pc = "done" /\ response[1].status = 500) =>
        /\ ~response[1].success
        /\ response[1].error \in GenericErrors

(***************************************************************************)
(* C12: for /api/current with a city parameter no combination of upstream  *)
(* provider failures produces an error response: the response has          *)
(* success=true, and data_type is 'real' exactly when fetch_combined_data  *)
(* returned a non-empty combined record and 'synthetic' otherwise,         *)
(* including when the fetch raised.                                        *)
(***************************************************************************)
FetchRaised == real_data # Absent /\ "raised" \in DOMAIN real_data[1]

FetchReturnedRecord ==
    /\ real_data # Absent
    /\ ~FetchRaised
    /\ DOMAIN real_data[1] # {}

C12_RealOrSynthetic ==
    (pc = "done" /\ endpoint = "/api/current" /\ HasCity) =>
        /\ response[1].status = 200
        /\ response[1].success
        /\ response[1].error = ""
        /\ response[1].data_type \in {"real", "synthetic"}
        /\ response[1].data_type = "real" <=> FetchReturnedRecord
        /\ FetchReturnedRecord => response[1].data = real_data[1]
        /\ (real_data = Absent \/ FetchRaised) =>
                (env # Absent /\ "category" \in DOMAIN response[1].data)

\* OpenWeather answered with a PM2.5 that is a string: calculate_aqi_from_pm25
\* raised inside fetch_combined_data and the answer is synthetic
C12_Witness ==
    /\ pc = "done"
    /\ endpoint = "/api/current"
    /\ HasCity
    /\ Keys(results) = <<"openweather">>
    /\ results[1][2]["pm2_5"] = JsonText
    /\ FetchRaised
    /\ combine_calls = 1
    /\ response[1].success
    /\ response[1].data_type = "synthetic"

(***************************************************************************)
(* C13: the WAQI payload only fills fields that are still absent: when the *)
(* AirVisual payload is present the combined AQI is AirVisual's aqi_us and *)
(* never WAQI's aqi, and WAQI's pm25, pm10 and aqi end up in the combined  *)
(* record only under keys no other source has set, whatever the order of   *)
(* the sources in data_sources.                                            *)
(***************************************************************************)
C13_WaqiFillsOnly ==
    (combined_out # Absent /\ PayloadOf(data_sources, "waqi") # Absent) =>
        LET wq == PayloadOf(data_sources, "waqi")[1]
            ow == PayloadOf(data_sources, "openweather")
            av == PayloadOf(data_sources, "airvisual")
            combined == combined_out[1]
        IN /\ av # Absent => combined["AQI"] = av[1]["aqi_us"]
           /\ av = Absent => combined["AQI"] = wq["aqi"]
           /\ ow # Absent => (combined["PM2.5"] = ow[1]["pm2_5"]
                              /\ combined["PM10"] = ow[1]["pm10"])
           /\ ow = Absent => (combined["PM2.5"] = wq["pm25"]
                              /\ combined["PM10"] = wq["pm10"])
           /\ (ow = Absent /\ av = Absent) =>
                DOMAIN combined =
                    {"sources_used", "PM2.5", "PM10", "AQI", "category", "color"}

\* WAQI comes before AirVisual in the mapping and their AQI values differ
C13_Witness ==
    /\ combined_out # Absent
    /\ Keys(data_sources) = <<"waqi", "airvisual">>
    /\ data_sources[1][2]["aqi"] = Some(RInt(310))
    /\ data_sources[2][2]["aqi_us"] = Some(RInt(42))
    /\ combined_out[1]["AQI"] = Some(RInt(42))
    /\ combined_out[1]["category"] = "Good"

(***************************************************************************)
(* C14 as claimed: if no provider set the AQI, the combined AQI is derived *)
(* by calculate_aqi_from_pm25 whenever a PM2.5 concentration is present in *)
(* the combined record, including PM2.5 = 0, which gives AQI 0; the 'AQI'  *)
(* key remains absent only when no PM2.5 concentration is available.       *)
(***************************************************************************)
C14_DerivedWheneverPm25 ==
    (combined_out # Absent /\ NoAqiSupplied(data_sources)) =>
        LET combined == combined_out[1]
            pm25 == Get(combined, "PM2.5")
        IN /\ (pm25 # Absent /\ IsNumber(pm25)) =>
                /\ "AQI" \in DOMAIN combined
                /\ combined["AQI"] # Absent
                /\ REq(combined["AQI"][1], calculate_aqi_from_pm25(pm25[1]))
           /\ ("AQI" \notin DOMAIN combined /\ ~("raised" \in DOMAIN combined)) =>
                pm25 = Absent

\* the orders in which n entries can be arranged
Orderings(n) ==
    { p \in [1..n -> 1..n] : \A i, j \in 1..n : i # j => p[i] # p[j] }

\* the mapping with its entries in the order p
Reordered(sources, p) == [i \in DOMAIN sources |-> sources[p[i]]]

\* the record without its sources_used list
Fields(combined) ==
    [k \in DOMAIN combined \ {"sources_used"} |-> combined[k]]

(***************************************************************************)
(* C15: the merge is independent of the order in which provider results    *)
(* arrive: for any set of present payloads combine_data_sources yields the *)
(* same pollutant, AQI, weather, category and color fields for every       *)
(* permutation of the entries of data_sources; only the order of the       *)
(* sources_used list may differ.                                           *)
(***************************************************************************)
C15_OrderIndependent ==
    combined_out # Absent =>
        \A p \in Orderings(Len(data_sources)) :
            LET other == combine_data_sources(Reordered(data_sources, p))
            IN /\ Fields(other) = Fields(combined_out[1])
               /\ other["sources_used"] = Keys(Reordered(data_sources, p))
               /\ {other["sources_used"][i] : i \in DOMAIN other["sources_used"]}
                    = {data_sources[i][1] : i \in DOMAIN data_sources}

\* all three payloads present, WAQI first, with PM2.5 and AQI values that
\* differ between the sources
C15_Witness ==
    /\ combined_out # Absent
    /\ Keys(data_sources) = <<"waqi", "airvisual", "openweather">>
    /\ data_sources[1][2]["pm25"] = Some(250)
    /\ data_sources[1][2]["aqi"] = Some(RInt(310))
    /\ data_sources[2][2]["aqi_us"] = Some(RInt(155))
    /\ data_sources[3][2]["pm2_5"] = Some(1000)
    /\ combined_out[1]["PM2.5"] = Some(1000)
    /\ combined_out[1]["AQI"] = Some(RInt(155))
    /\ combined_out[1]["category"] = "Moderate"

(***************************************************************************)
(* SpecReading: get_air_quality_index applied to one reading of several    *)
(* pollutants, in every key order.  The levels enumerated per pollutant    *)
(* are a negative one, 0, one in the first bracket (sub-index 25 for each  *)
(* of the three pollutants), the first shared breakpoint (sub-index 50),   *)
(* one in a higher bracket and one above the last breakpoint.              *)
(***************************************************************************)
ReadingPollutants == TablePollutants \cup {"SO2", "timestamp"}

ReadingLevels ==
    ("PM2.5" :> {-1, 0, 150, 300, 1000, 2501})
    @@ ("PM10" :> {-1, 0, 250, 500, 3000, 4301})
    @@ ("NO2" :> {-1, 0, 200, 400, 1000, 4001})
    @@ ("SO2" :> {5000})
    @@ ("timestamp" :> {17000})

\* the key orders of a reading: every sequence of distinct pollutant names
ReadingOrders ==
    { o \in UNION { [1..n -> ReadingPollutants] : n \in 0..Cardinality(ReadingPollutants) } :
        \A i, j \in DOMAIN o : i # j => o[i] # o[j] }

InitReading ==
    /\ \E o \in ReadingOrders :
        \E pm25 \in ReadingLevels["PM2.5"], pm10 \in ReadingLevels["PM10"],
           no2 \in ReadingLevels["NO2"], so2 \in ReadingLevels["SO2"],
           ts \in ReadingLevels["timestamp"] :
            LET lv == ("PM2.5" :> pm25) @@ ("PM10" :> pm10) @@ ("NO2" :> no2)
                      @@ ("SO2" :> so2) @@ ("timestamp" :> ts)
            IN reading = [i \in DOMAIN o |-> <<o[i], lv[o[i]]>>]
    /\ reading_out = Absent
    /\ IdleAqi
    /\ IdleCategory
    /\ IdleCombine
    /\ IdleService

\* get_air_quality_index(reading)
ApplyReading ==
    /\ reading_out = Absent
    /\ reading_out' = Some(get_air_quality_index(reading))
    /\ UNCHANGED <<reading, aqiVars, catVars, combVars, svcVars>>

NextReading == ApplyReading

SpecReading == InitReading /\ [][NextReading]_vars

\* the positions of the reading whose pollutant has a sub-index (it is in the
\* table and its level is inside a bracket)
Indexed(items) ==
    { i \in DOMAIN items : SubIndex(items[i][1], items[i][2]) # Absent }

\* the sub-index at position i of the reading
SubIndexAt(items, i) == SubIndex(items[i][1], items[i][2])[1]

\* a position holding the largest sub-index of the reading
IsMaxAt(items, i) ==
    /\ i \in Indexed(items)
    /\ \A j \in Indexed(items) : RLe(SubIndexAt(items, j), SubIndexAt(items, i))

\* the reading without the items at the positions drop, in the same order
RECURSIVE Without(_, _, _)
Without(items, drop, i) ==
    IF i > Len(items) THEN <<>>
    ELSE (IF i \in drop THEN <<>> ELSE <<items[i]>>) \o Without(items, drop, i + 1)

(***************************************************************************)
(* C16 as claimed: for any reading with at least one pollutant of the      *)
(* breakpoint table inside its range, get_air_quality_index returns as aqi *)
(* the rounded maximum of the per-pollutant sub-indices and as             *)
(* dominant_pollutant a pollutant of the reading whose sub-index equals    *)
(* that maximum; pollutants not in the table never change the result.      *)
(***************************************************************************)
C16_WorstCaseAndDominant ==
    (reading_out # Absent /\ Indexed(reading) # {}) =>
        /\ \E i \in DOMAIN reading :
                /\ IsMaxAt(reading, i)
                /\ reading_out[1].aqi = Round(SubIndexAt(reading, i))
                /\ reading_out[1].category = CategoryIndex(SubIndexAt(reading, i)).category
        /\ \E i \in DOMAIN reading :
                /\ IsMaxAt(reading, i)
                /\ reading_out[1].dominant_pollutant = reading[i][1]
        /\ reading_out[1] =
                get_air_quality_index(
                    Without(reading,
                            {i \in DOMAIN reading : reading[i][1] \notin TablePollutants}, 1))

\* the keys of aqi_breakpoints in the table's iteration order
TableOrder == <<"PM2.5", "PM10", "NO2">>

\* two different positions of the reading hold the largest sub-index
TiedAtMax(items) ==
    \E i, j \in DOMAIN items : i # j /\ IsMaxAt(items, i) /\ IsMaxAt(items, j)

\* the largest sub-index of the reading is above 0
MaxIsPositive(items) ==
    \E i \in DOMAIN items : IsMaxAt(items, i) /\ RLt(RInt(0), SubIndexAt(items, i))

(***************************************************************************)
(* C17 as claimed, for ties at a sub-index above 0: when two pollutants of *)
(* a reading have the same maximal sub-index, dominant_pollutant is the    *)
(* first of the tied pollutants in the breakpoint table's iteration order  *)
(* (PM2.5, then PM10, then NO2), independently of the key order of the     *)
(* input mapping.                                                          *)
(***************************************************************************)
C17_TieByTableOrder ==
    (reading_out # Absent /\ TiedAtMax(reading) /\ MaxIsPositive(reading)) =>
        LET tied == {reading[i][1] : i \in {j \in DOMAIN reading : IsMaxAt(reading, j)}}
            first == CHOOSE k \in DOMAIN TableOrder :
                        /\ TableOrder[k] \in tied
                        /\ \A l \in 1..(k - 1) : TableOrder[l] \notin tied
        IN reading_out[1].dominant_pollutant = TableOrder[first]

(***************************************************************************)
(* C17 amended: when two pollutants of a reading have the same maximal     *)
(* sub-index, dominant_pollutant is the first of the tied pollutants in    *)
(* the key order of the input mapping (the loop runs over                  *)
(* pollutant_levels.items(), and only a strictly larger sub-index replaces *)
(* the maximum); when that maximal sub-index is 0, dominant_pollutant is   *)
(* None.                                                                   *)
(***************************************************************************)
C17_TieByInputOrder ==
    (reading_out # Absent /\ TiedAtMax(reading)) =>
        LET first == CHOOSE i \in DOMAIN reading :
                        /\ IsMaxAt(reading, i)
                        /\ \A j \in 1..(i - 1) : ~IsMaxAt(reading, j)
        IN IF MaxIsPositive(reading)
           THEN reading_out[1].dominant_pollutant = reading[first][1]
           ELSE reading_out[1].dominant_pollutant = None

\* PM10 = 25.0 listed before PM2.5 = 15.0: both have sub-index 25
C17_Witness ==
    /\ reading_out # Absent
    /\ reading = << <<"PM10", 250>>, <<"PM2.5", 150>> >>
    /\ REq(SubIndexAt(reading, 1), SubIndexAt(reading, 2))
    /\ reading_out[1].aqi = 25
    /\ reading_out[1].dominant_pollutant = "PM10"

\* the positions of table pollutants whose level is in no bracket
OutOfRange(items) ==
    { i \in DOMAIN items :
        items[i][1] \in TablePollutants /\ ~InTableRange(items[i][1], items[i][2]) }

(***************************************************************************)
(* C18: a concentration outside all brackets (negative, or above the last  *)
(* breakpoint) contributes no sub-index and raises no error: the result is *)
(* the same as if that pollutant were absent from the reading, and a       *)
(* reading whose only table pollutants are out of range yields aqi 0,      *)
(* category Good and dominant_pollutant None.                              *)
(***************************************************************************)
C18_OutOfRangeIgnored ==
    reading_out # Absent =>
        /\ reading_out[1] = get_air_quality_index(Without(reading, OutOfRange(reading), 1))
        /\ \A i \in OutOfRange(reading) :
                reading_out[1].dominant_pollutant # reading[i][1]
        /\ (\A i \in DOMAIN reading :
                reading[i][1] \in TablePollutants => i \in OutOfRange(reading)) =>
                /\ reading_out[1].aqi = 0
                /\ reading_out[1].category = "Good"
                /\ reading_out[1].color = "green"
                /\ reading_out[1].dominant_pollutant = None

\* PM2.5 = 250.1 is above the last breakpoint and PM10 = -0.1 is negative;
\* NO2 = 20.0 alone decides the result
C18_Witness ==
    /\ reading_out # Absent
    /\ reading = << <<"PM2.5", 2501>>, <<"NO2", 200>>, <<"PM10", -1>> >>
    /\ OutOfRange(reading) = {1, 3}
    /\ reading_out[1].aqi = 25
    /\ reading_out[1].dominant_pollutant = "NO2"

(***************************************************************************)
(* C19: for a concentration inside a bracket the sub-index is              *)
(* aqi_lo + (aqi_hi - aqi_lo) * (value - bp_lo) / (bp_hi - bp_lo) for the  *)
(* first table bracket with bp_lo <= value <= bp_hi (the returned aqi is   *)
(* that value rounded to an integer); a concentration equal to a           *)
(* breakpoint shared by two brackets (PM2.5 = 30) takes the lower bracket  *)
(* and yields its aqi_hi (50), not the upper bracket's aqi_lo (51).        *)
(***************************************************************************)
C19_FirstBracketFormula ==
    (index_out # Absent /\ InTableRange(pollutant, level)) =>
        LET t == aqi_breakpoints[pollutant]
            k == CHOOSE k \in DOMAIN t :
                    /\ t[k][1] <= level /\ level <= t[k][2]
                    /\ \A l \in 1..(k - 1) : ~(t[l][1] <= level /\ level <= t[l][2])
            bp_lo == t[k][1]
            bp_hi == t[k][2]
            aqi_lo == t[k][3]
            aqi_hi == t[k][4]
            \* (returned aqi - formula) * (bp_hi - bp_lo)
            diff == index_out[1].aqi * (bp_hi - bp_lo)
                    - (aqi_lo * (bp_hi - bp_lo) + (aqi_hi - aqi_lo) * (level - bp_lo))
        IN /\ 2 * diff <= bp_hi - bp_lo
           /\ 2 * diff >= -(bp_hi - bp_lo)
           /\ level = bp_hi => index_out[1].aqi = aqi_hi
           /\ level = bp_lo => index_out[1].aqi = (IF k = 1 THEN aqi_lo ELSE t[k - 1][4])
           /\ (pollutant = "PM2.5" /\ level = 300) => index_out[1].aqi = 50

C19_Witness ==
    /\ pollutant = "PM2.5"
    /\ level = 300
    /\ index_out # Absent
    /\ index_out[1].aqi = 50
    /\ index_out[1].category = "Good"
    /\ index_out[1].dominant_pollutant = "PM2.5"

\* load_models finds both files / finds a file missing
ArtifactsLoadable == artifacts = "present"
ArtifactsMissing == artifacts \in {"missing", "models_only"}

(***************************************************************************)
(* C20 as claimed: the models_loaded flag is the only state init_models    *)
(* leaves for later requests to observe, and after any init_models call it *)
(* is True exactly when either load_models succeeded or, the artifacts     *)
(* being missing, generation, preprocessing and training all completed     *)
(* without exception; any exception during loading or training leaves it   *)
(* False and the request is still served.                                  *)
(***************************************************************************)
C20_OnlyFlagLeft ==
    [][pc = "init" =>
        /\ artifacts' = artifacts
        /\ models_loaded' <=>
                (ArtifactsLoadable \/ (ArtifactsMissing /\ init_events'.train = "ok"))
        /\ pc' = "handle"]_vars

(***************************************************************************)
(* C20 amended: init_models leaves the models_loaded flag, which GET /     *)
(* reports, and, when training completed, the artifacts on disk, which the *)
(* init_models call of every later request loads.  After any init_models   *)
(* call the flag is True exactly when either load_models succeeded or, the *)
(* artifacts being missing, generation, preprocessing and training all     *)
(* completed without exception; any exception during loading or training  *)
(* leaves it False and the request is still served.                        *)
(***************************************************************************)
C20_FlagAndArtifacts ==
    [][/\ pc = "init" =>
            /\ models_loaded' <=>
                    (ArtifactsLoadable \/ (ArtifactsMissing /\ init_events'.train = "ok"))
            /\ ArtifactsLoadable =>
                    (init_events' = [load |-> "True", train |-> ""]
                     /\ artifacts' = artifacts)
            /\ (ArtifactsMissing /\ init_events'.train = "ok") => artifacts' = "present"
            /\ (~ArtifactsLoadable /\ ~ArtifactsMissing) =>
                    (init_events'.load = "raised" /\ ~models_loaded'
                     /\ artifacts' = artifacts)
            /\ models_loaded' => artifacts' = "present"
            /\ pc' = "handle"
       /\ pc # "init" => (models_loaded' = models_loaded /\ artifacts' = artifacts)
       /\ (pc = "handle" /\ endpoint = "/") =>
            (pc' = "done" /\ response'[1].status = 200
             /\ response'[1].models_loaded = models_loaded)
       /\ pc' = "done" => response' # Absent]_vars

\* joblib.load raised on a corrupt file: the flag is False and the request
\* for the current conditions of Delhi is answered all the same
C20_Witness ==
    /\ pc = "done"
    /\ endpoint = "/api/current"
    /\ HasCity
    /\ body[1].city = "Delhi"
    /\ artifacts = "corrupt"
    /\ init_events = [load |-> "raised", train |-> ""]
    /\ ~models_loaded
    /\ response[1].status = 200
    /\ response[1].success

(***************************************************************************)
(* C21: /api/forecast accepts an hours parameter only in 1..168 (default   *)
(* 24 when omitted): for any integer hours < 1 or > 168 it returns HTTP    *)
(* 400 with success=false and generates no prediction, and for a body      *)
(* without city it returns 400 before reading hours.                       *)
(***************************************************************************)
C21_HoursRange ==
    (pc = "done" /\ endpoint = "/api/forecast" /\ body # Absent) =>
        LET hours == body[1].hours
        IN /\ ~body[1].has_city =>
                /\ response[1].status = 400
                /\ ~response[1].success
                /\ response[1].error = "City parameter is required"
                /\ response[1].data = Absent
           /\ (body[1].has_city /\ hours.t = "int" /\ (hours.v < 1 \/ hours.v > 168)) =>
                /\ response[1].status = 400
                /\ ~response[1].success
                /\ response[1].error = "Hours must be between 1 and 168"
                /\ response[1].data = Absent
           /\ (body[1].has_city /\ hours.t = "int" /\ 1 <= hours.v /\ hours.v <= 168) =>
                /\ response[1].status = 200
                /\ response[1].success
                /\ response[1].data.hours = hours.v
           /\ (body[1].has_city /\ hours.t = "absent") =>
                /\ response[1].status = 200
                /\ response[1].success
                /\ response[1].data.hours = 24
                /\ Len(response[1].data.predictions) = 24

\* hours = 0 with a city: rejected without a prediction
C21_Witness ==
    /\ pc = "done"
    /\ endpoint = "/api/forecast"
    /\ HasCity
    /\ body[1].hours = IntParam(0)
    /\ response[1].status = 400
    /\ response[1].data = Absent

(***************************************************************************)
(* C22: for a valid forecast request with hours = h in 1..168,             *)
(* generate_mock_forecast returns exactly ceil(h / step) predictions,      *)
(* where step = 1 when h <= 48 and 2 otherwise, at hour offsets 0, step,   *)
(* 2*step, ... < h with strictly increasing timestamps; the step-4 branch  *)
(* is unreachable through the endpoint, and the response's 'hours' field   *)
(* equals h even when fewer than h predictions are returned.               *)
(***************************************************************************)
ForecastServed ==
    /\ pc = "done"
    /\ endpoint = "/api/forecast"
    /\ response # Absent
    /\ response[1].status = 200

C22_ForecastPoints ==
    ForecastServed =>
        LET h == IF body[1].hours.t = "absent" THEN 24 ELSE body[1].hours.v
            step == IF h <= 48 THEN 1 ELSE 2
            predictions == response[1].data.predictions
            n == Len(predictions)
        IN /\ h \in 1..168
           /\ response[1].data.hours = h
           /\ (n - 1) * step < h /\ h <= n * step
           /\ \A i \in 1..n : predictions[i] = (i - 1) * step
           /\ \A i \in 1..n : predictions[i] < h
           /\ \A i \in 1..(n - 1) :
                /\ predictions[i] < predictions[i + 1]
                /\ predictions[i + 1] - predictions[i] # 4

\* 49 hours asked: 25 predictions two hours apart, 'hours' still 49
C22_Witness ==
    /\ ForecastServed
    /\ body[1].hours = IntParam(49)
    /\ Len(response[1].data.predictions) = 25
    /\ response[1].data.predictions[25] = 48
    /\ response[1].data.hours = 49

(***************************************************************************)
(* C23: generate_historical_data returns exactly max(days, 0) entries, one *)
(* per day, ordered oldest first, with the last entry dated today and      *)
(* consecutive entries exactly one day apart; for days <= 0 it returns an  *)
(* empty list and /api/historical still answers success=true.              *)
(***************************************************************************)
HistoricalAsked ==
    /\ pc = "done"
    /\ endpoint = "/api/historical"
    /\ body # Absent
    /\ body[1].days.t \in {"absent", "int"}

C23_OnePerDay ==
    HistoricalAsked =>
        LET days == IF body[1].days.t = "absent" THEN 7 ELSE body[1].days.v
            n == IF days > 0 THEN days ELSE 0
        IN /\ response[1].status = 200
           /\ response[1].success
           /\ Len(response[1].data.data) = n
           /\ n > 0 => response[1].data.data[n] = 0
           /\ \A i \in 1..(n - 1) :
                response[1].data.data[i] = response[1].data.data[i + 1] + 1

(***************************************************************************)
(* C24: generate_health_recommendations maps an integer AQI to a level by  *)
(* the thresholds Good for aqi <= 50, Satisfactory for 50 < aqi <= 100,    *)
(* Moderate for 100 < aqi <= 200 and Unhealthy for aqi > 200; only the     *)
(* Good level has an empty precautions list.                               *)
(***************************************************************************)
HealthServed ==
    /\ pc = "done"
    /\ endpoint = "/api/health-recommendations"
    /\ response # Absent
    /\ response[1].status = 200

C24_HealthLevels ==
    HealthServed =>
        LET aqi == response[1].data.aqi
            recommendations == response[1].data
        IN /\ aqi = (IF body[1].aqi.t = "absent" THEN 50 ELSE body[1].aqi.v)
           /\ recommendations.level = "Good" <=> aqi <= 50
           /\ recommendations.level = "Satisfactory" <=> (50 < aqi /\ aqi <= 100)
           /\ recommendations.level = "Moderate" <=> (100 < aqi /\ aqi <= 200)
           /\ recommendations.level = "Unhealthy" <=> aqi > 200
           /\ recommendations.precautions = 0 <=> recommendations.level = "Good"

\* aqi = 50 is still Good, with no precaution
C24_Witness ==
    /\ HealthServed
    /\ body[1].aqi = IntParam(50)
    /\ response[1].data.level = "Good"
    /\ response[1].data.precautions = 0

(***************************************************************************)
(* C25: as coded, fetch_airvisual_data and fetch_waqi_data return None for *)
(* every city without sending a request, because the fetcher never defines *)
(* airvisual_api_key or waqi_token and the resulting AttributeError is     *)
(* swallowed; hence in every record returned by fetch_combined_data        *)
(* sources_used is exactly ['openweather'], no temperature / humidity /    *)
(* pressure / wind_speed is set, and /api/data-sources reports             *)
(* total_active <= 1.                                                      *)
(***************************************************************************)
C25_OnlyOpenWeather ==
    /\ \A i \in DOMAIN sent : sent[i] \notin {"airvisual", "waqi"}
    /\ \A i \in DOMAIN results : results[i][1] \notin {"airvisual", "waqi"}
    /\ Len(calls) >= 2 =>
            /\ "airvisual" \in FailedNames
            /\ \A f \in failed : f[1] = "airvisual" =>
                    f[2] = (IF endpoint = "/api/data-sources" \/ body[1].city \in city_mapping
                            THEN "AttributeError" ELSE "ValueError")
    /\ Len(calls) >= 3 => <<"waqi", "AttributeError">> \in failed
    /\ FetchReturnedRecord =>
            /\ real_data[1]["sources_used"] = <<"openweather">>
            /\ {"temperature", "humidity", "pressure", "wind_speed"}
                    \cap DOMAIN real_data[1] = {}
    /\ (pc = "done" /\ endpoint = "/api/data-sources") =>
            /\ response[1].success
            /\ response[1].total_active <= 1
            /\ response[1].sources.airvisual = "inactive"
            /\ response[1].sources.waqi = "inactive"

\* /api/data-sources with OpenWeather answering: one active source, the only
\* request sent, and the two other fetches ended by AttributeError
C25_Witness ==
    /\ pc = "done"
    /\ endpoint = "/api/data-sources"
    /\ response[1].total_active = 1
    /\ sent = <<"openweather">>
    /\ failed = {<<"airvisual", "AttributeError">>, <<"waqi", "AttributeError">>}

(***************************************************************************)
(* C26: the OpenWeather payload's own 'aqi' value (a 1-5 scale) is never   *)
(* copied into the combined record: the combined 'AQI' comes only from     *)
(* AirVisual's aqi_us, from WAQI's aqi, or from the PM2.5-derived          *)
(* calculation.  (The payloads' AQI values are pairwise different, so a    *)
(* combined 'AQI' equal to OpenWeather's aqi could only be a copy.)        *)
(***************************************************************************)
C26_OpenWeatherAqiUnused ==
    (combined_out # Absent /\ "raised" \notin DOMAIN combined_out[1]) =>
        LET combined == combined_out[1]
            ow == PayloadOf(data_sources, "openweather")
            av == PayloadOf(data_sources, "airvisual")
            wq == PayloadOf(data_sources, "waqi")
        IN /\ "aqi" \notin DOMAIN combined
           /\ "AQI" \in DOMAIN combined =>
                /\ \/ av # Absent /\ combined["AQI"] = av[1]["aqi_us"]
                   \/ wq # Absent /\ combined["AQI"] = wq[1]["aqi"]
                   \/ /\ av = Absent
                      /\ "PM2.5" \in DOMAIN combined
                      /\ IsNumber(combined["PM2.5"])
                      /\ combined["AQI"] =
                            Some(calculate_aqi_from_pm25(combined["PM2.5"][1]))
                /\ ow # Absent => ~REq(combined["AQI"][1], ow[1]["aqi"][1])
           /\ (ow # Absent /\ av = Absent /\ wq = Absent
                    /\ ~Truthy(Get(combined, "PM2.5"))) =>
                "AQI" \notin DOMAIN combined

\* OpenWeather alone reports aqi 5 and PM2.5 40: the combined AQI is the
\* derived 111.5
C26_Witness ==
    /\ combined_out # Absent
    /\ Keys(data_sources) = <<"openweather">>
    /\ data_sources[1][2]["aqi"] = Some(RInt(5))
    /\ data_sources[1][2]["pm2_5"] = Some(400)
    /\ REq(combined_out[1]["AQI"][1], Rat(223, 2))

(***************************************************************************)
(* C27: every record returned by combine_data_sources carries a category   *)
(* and a color, including when no 'AQI' key is present: a record without   *)
(* 'AQI' is labelled 'Good' with color '#00e400'.                          *)
(***************************************************************************)
C27_AlwaysLabelled ==
    (combined_out # Absent /\ "raised" \notin DOMAIN combined_out[1]) =>
        LET combined == combined_out[1]
        IN /\ {"category", "color"} \subseteq DOMAIN combined
           /\ combined["category"] \in
                {"Good", "Satisfactory", "Moderate", "Poor", "Very Poor"}
           /\ "AQI" \notin DOMAIN combined =>
                /\ combined["category"] = "Good"
                /\ combined["color"] = "#00e400"

\* OpenWeather alone with PM2.5 = 0: no AQI is derived, the record is Good
C27_Witness ==
    /\ combined_out # Absent
    /\ Keys(data_sources) = <<"openweather">>
    /\ data_sources[1][2]["pm2_5"] = Some(0)
    /\ "AQI" \notin DOMAIN combined_out[1]
    /\ combined_out[1]["category"] = "Good"
    /\ combined_out[1]["color"] = "#00e400"

(***************************************************************************)
(* C28: in get_air_quality_index the category is computed from the         *)
(* unrounded maximum sub-index while the returned aqi is rounded, yet the  *)
(* two always agree: the returned category is the category the threshold   *)
(* rule (50/100/200/300) assigns to the returned rounded aqi, because no   *)
(* sub-index falls strictly between 50 and 51, 100 and 101, 200 and 201,   *)
(* or 300 and 301.                                                         *)
(***************************************************************************)
C28_CategoryOfRoundedAqi ==
    index_out # Absent =>
        LET sub == SubIndex(pollutant, level)
        IN /\ index_out[1].category = CategoryIndex(RInt(index_out[1].aqi)).category
           /\ index_out[1].color = CategoryIndex(RInt(index_out[1].aqi)).color
           /\ sub # Absent =>
                \A t \in {50, 100, 200, 300} :
                    ~(RLt(RInt(t), sub[1]) /\ RLt(sub[1], RInt(t + 1)))

\* PM2.5 = 30.1 is in the second bracket: sub-index 51.16, aqi 51, Satisfactory
C28_Witness ==
    /\ index_out # Absent
    /\ pollutant = "PM2.5"
    /\ level = 301
    /\ RLt(RInt(51), SubIndex(pollutant, level)[1])
    /\ index_out[1].aqi = 51
    /\ index_out[1].category = "Satisfactory"

(***************************************************************************)
(* C29: init_models runs before every request (before_request hook), and   *)
(* across any sequence of requests training happens at most once: once a   *)
(* training run has completed and save_models has written both artifacts,  *)
(* every later init_models call loads them via load_models and never       *)
(* regenerates data or retrains, provided the artifact files stay on disk. *)
(***************************************************************************)
C29_TrainAtMostOnce ==
    /\ trainings <= 1
    /\ trainings = 1 =>
            /\ artifacts = "present"
            /\ pc \notin {"idle", "init"} =>
                    /\ models_loaded
                    /\ init_events \in {[load |-> "False", train |-> "ok"],
                                        [load |-> "True", train |-> ""]}
    /\ (artifacts = "present" /\ pc \in {"handle", "done"}) =>
            (init_events.load = "True" \/ init_events.train = "ok")
    /\ pc \in {"handle", "done"} => init_events # NoInitEvents
    /\ init_events.train = "ok" => artifacts = "present"

\* a request served after the one that trained: its init_models call loaded
\* the artifacts and trained nothing
C29_Witness ==
    /\ pc = "done"
    /\ trainings = 1
    /\ artifacts = "present"
    /\ init_events = [load |-> "True", train |-> ""]
    /\ models_loaded

====
